---- MODULE Spec2Model ----
(***************************************************************************)
(* DemandIT: the hierarchical entity + audit-log data model and its        *)
(* query/mutation contract (server/routes.ts over server/storage.ts over   *)
(* shared/schema.ts).                                                      *)
(*                                                                         *)
(* A row is a record that holds exactly its non-NULL columns: a column     *)
(* that is NULL in the database is absent from the row's DOMAIN.  A        *)
(* request body is [f |-> the well-typed fields it carries, bad |-> the    *)
(* names of the fields whose JSON type is wrong].                          *)
(***************************************************************************)
EXTENDS Integers, Sequences, FiniteSets, TLC

VARIABLES
    db,      \* the relational store: one field per table of shared/schema.ts
    env,     \* process.env.NODE_ENV of the running server
    clock,   \* the server's time: new Date() / defaultNow()
    nextId,  \* how many gen_random_uuid() values have been drawn
    req,     \* the request being handled, with its response once it is sent
    out      \* the rows the last list query returned

vars == <<db, env, clock, nextId, req, out>>

\* Bound on the number of storage writes of one run (each write takes a tick).
MaxClock == 8

(***************************************************************************)
(* shared/schema.ts                                                        *)
(***************************************************************************)

Kinds == {"portfolio", "program", "demand", "project", "product"}

CoreTables == {"portfolios", "programs", "demands", "projects", "products"}

Tables == CoreTables \cup {"users", "phases", "statuses"}

\* The table that holds the rows of an entity kind.
TableOf(kind) ==
    CASE kind = "portfolio" -> "portfolios"
      [] kind = "program"   -> "programs"
      [] kind = "demand"    -> "demands"
      [] kind = "project"   -> "projects"
      [] kind = "product"   -> "products"
      [] kind = "user"      -> "users"
      [] kind = "phase"     -> "phases"
      [] kind = "status"    -> "statuses"

\* The role enum of users.role, as the role-update route lists it.
validRoles ==
    {"admin", "portfolio_manager", "program_manager", "project_manager", "contributor"}

\* The products table (its Drizzle definition): programId and ownerId are
\* required references, status and version carry defaults.
productsReferences == {<<"programId", "programs">>, <<"ownerId", "users">>}

productsColumns ==
    {"name", "description", "programId", "ownerId", "status", "version", "launchDate",
     "businessValue"}

productsRequired == {"name", "programId", "ownerId"}

productsDefaults(now) ==
    [status |-> "in_development", version |-> "1.0.0", createdAt |-> now, updatedAt |-> now]

\* .references(() => t.id): the foreign keys of each table, <<column, table>>.
References(table) ==
    CASE table = "portfolios" -> {<<"ownerId", "users">>}
      [] table = "programs"   -> {<<"portfolioId", "portfolios">>, <<"ownerId", "users">>}
      [] table = "demands"    -> {<<"programId", "programs">>, <<"phaseId", "phases">>,
                                  <<"statusId", "statuses">>, <<"ownerId", "users">>}
      [] table = "projects"   -> {<<"programId", "programs">>, <<"demandId", "demands">>,
                                  <<"phaseId", "phases">>, <<"statusId", "statuses">>,
                                  <<"ownerId", "users">>, <<"projectManagerId", "users">>}
      [] table = "products"   -> productsReferences
      [] OTHER                -> {}

\* The columns an insert schema accepts: createInsertSchema(t).omit({id,
\* createdAt, updatedAt}); a zod object drops every other key of the input.
SchemaColumns(table) ==
    CASE table = "portfolios" -> {"name", "description", "ownerId", "status", "budget"}
      [] table = "programs"   -> {"name", "description", "portfolioId", "ownerId",
                                  "status", "budget"}
      [] table = "demands"    -> {"title", "description", "programId", "phaseId",
                                  "statusId", "ownerId", "priority", "requestedDate",
                                  "estimatedEffort", "businessValue"}
      [] table = "projects"   -> {"title", "description", "programId", "demandId",
                                  "phaseId", "statusId", "ownerId", "projectManagerId",
                                  "priority", "startDate", "endDate", "budget", "progress"}
      [] table = "products"   -> productsColumns
      [] table = "phases"     -> {"name", "type", "order", "isActive"}
      [] table = "statuses"   -> {"name", "type", "color", "isActive"}

\* The columns an insert schema requires: notNull() without a default.
SchemaRequired(table) ==
    CASE table = "portfolios" -> {"name", "ownerId"}
      [] table = "programs"   -> {"name", "portfolioId", "ownerId"}
      [] table = "demands"    -> {"title", "programId", "ownerId"}
      [] table = "projects"   -> {"title", "programId", "ownerId"}
      [] table = "products"   -> productsRequired
      [] table = "phases"     -> {"name", "type", "order"}
      [] table = "statuses"   -> {"name", "type"}

\* The column defaults the database fills in on insert (default(...),
\* defaultNow()), given the time of the insert.
ColumnDefaults(table, now) ==
    CASE table = "portfolios" -> [status |-> "active", createdAt |-> now, updatedAt |-> now]
      [] table = "programs"   -> [status |-> "active", createdAt |-> now, updatedAt |-> now]
      [] table = "demands"    -> [priority |-> "medium", requestedDate |-> now,
                                  createdAt |-> now, updatedAt |-> now]
      [] table = "projects"   -> [priority |-> "medium", progress |-> 0,
                                  createdAt |-> now, updatedAt |-> now]
      [] table = "products"   -> productsDefaults(now)
      [] table = "users"      -> [role |-> "contributor"]
      [] table = "phases"     -> [isActive |-> TRUE]
      [] table = "statuses"   -> [color |-> "gray", isActive |-> TRUE]

\* A parse that checks presence and no types.
ParseOkUntyped(table, body, partial) ==
    partial \/ SchemaRequired(table) \subseteq DOMAIN body.f

\* schema.parse(input) / schema.partial().parse(input): whether zod accepts.
ParseOk(table, body, partial) ==
    /\ body.bad \cap SchemaColumns(table) = {}
    /\ partial \/ SchemaRequired(table) \subseteq DOMAIN body.f

\* ZodError.errors: the fields the issues name.
ParseErrors(table, body, partial) ==
    (body.bad \cap SchemaColumns(table))
    \cup (IF partial THEN {} ELSE SchemaRequired(table) \ (DOMAIN body.f \cup body.bad))

\* The parsed data: the input's fields that the schema knows.
ParseData(table, body) ==
    [c \in (DOMAIN body.f) \cap SchemaColumns(table) |-> body.f[c]]

(***************************************************************************)
(* The database: rows, primary keys and foreign keys (drizzle on Postgres) *)
(***************************************************************************)

\* gen_random_uuid(): the n-th identifier drawn.
NewId(n) == "e" \o ToString(n)

HasRow(d, table, id) == \E r \in d[table] : r.id = id

RowOf(d, table, id) == CHOOSE r \in d[table] : r.id = id

\* Every foreign key of the row names a row of the referenced table.
ForeignKeysHold(d, table, row) ==
    \A ref \in References(table) :
        ref[1] \in DOMAIN row => HasRow(d, ref[2], row[ref[1]])

\* A store whose references restrict nothing.
NeverReferenced(d, table, id) == FALSE

\* Some row of some table references the row `id` of `table`
\* (audit_log.changedBy references users.id).
IsReferenced(d, table, id) ==
    \/ \E t \in CoreTables : \E ref \in References(t) :
          /\ ref[2] = table
          /\ \E r \in d[t] : ref[1] \in DOMAIN r /\ r[ref[1]] = id
    \/ /\ table = "users"
       /\ \E i \in 1..Len(d.auditLog) : d.auditLog[i].changedBy = id

\* The row an insert stores: the values, the generated id, the defaults.
NewRow(table, values, id, now) == ("id" :> id) @@ values @@ ColumnDefaults(table, now)

\* db.insert(t).values(v).returning(): the statement fails on a foreign key
\* that names no row, else the row is stored with its defaults.
SqlInsert(d, table, values, id, now) ==
    LET row == NewRow(table, values, id, now)
    IN  IF ForeignKeysHold(d, table, row)
        THEN [err |-> FALSE, db |-> [d EXCEPT ![table] = @ \cup {row}], rows |-> {row}]
        ELSE [err |-> TRUE, db |-> d, rows |-> {}]

\* db.update(t).set(s).where(eq(t.id, id)).returning(): no row matches a
\* missing id and nothing is returned; a foreign key that names no row fails.
SqlUpdate(d, table, id, set) ==
    IF ~HasRow(d, table, id)
    THEN [err |-> FALSE, db |-> d, rows |-> {}]
    ELSE LET old == RowOf(d, table, id)
             row == set @@ old
         IN  IF ForeignKeysHold(d, table, row)
             THEN [err |-> FALSE,
                   db |-> [d EXCEPT ![table] = (@ \ {old}) \cup {row}],
                   rows |-> {row}]
             ELSE [err |-> TRUE, db |-> d, rows |-> {}]

\* A delete that removes the row whatever references it.
SqlDeleteUnchecked(d, table, id) ==
    [err |-> FALSE,
     db |-> [d EXCEPT ![table] = {r \in @ : r.id # id}],
     rows |-> {r \in d[table] : r.id = id}]

\* db.delete(t).where(eq(t.id, id)): the references are ON DELETE NO ACTION,
\* so the statement fails while another row references this one; a missing
\* id deletes nothing and is no error.
SqlDelete(d, table, id) ==
    IF IsReferenced(d, table, id)
    THEN [err |-> TRUE, db |-> d, rows |-> {}]
    ELSE [err |-> FALSE,
          db |-> [d EXCEPT ![table] = {r \in @ : r.id # id}],
          rows |-> {r \in d[table] : r.id = id}]

(***************************************************************************)
(* server/storage.ts: DatabaseStorage                                      *)
(***************************************************************************)

getUser(d, id) == {r \in d.users : r.id = id}

\* A value that is an explicit null (profileImageUrl: null).
Null == "NULL"

\* The row as stored: a column set to null is absent from it.
Strip(row) == [c \in {k \in DOMAIN row : row[k] # Null} |-> row[c]]

\* users.email is unique: another user's row holds this email.
EmailTaken(d, userData) ==
    /\ "email" \in DOMAIN userData
    /\ userData.email # Null
    /\ \E u \in d.users :
          u.id # userData.id /\ "email" \in DOMAIN u /\ u.email = userData.email

\* An upsert that inserts a row whether or not the id is there.
insertUser(d, userData) ==
    [d EXCEPT !.users = @ \cup {Strip(userData @@ ColumnDefaults("users", 0))}]

\* insert ... onConflictDoUpdate({target: users.id, set: {...userData}}):
\* a row with the id takes the columns the call carries and keeps the others;
\* the statement fails on a taken email and leaves the store as it is.  (The
\* timestamps of users are not tracked.)
upsertUser(d, userData) ==
    IF EmailTaken(d, userData)
    THEN d
    ELSE IF HasRow(d, "users", userData.id)
    THEN LET old == RowOf(d, "users", userData.id)
         IN  [d EXCEPT !.users = (@ \ {old}) \cup {Strip(userData @@ old)}]
    ELSE [d EXCEPT !.users = @ \cup {Strip(userData @@ ColumnDefaults("users", 0))}]

\* update(users).set({...user, updatedAt}).where(eq(users.id, id)).returning()
updateUser(d, id, user) == SqlUpdate(d, "users", id, user)

getPortfolio(d, id) == {r \in d.portfolios : r.id = id}
createPortfolio(d, portfolio, id, now) == SqlInsert(d, "portfolios", portfolio, id, now)
updatePortfolio(d, id, portfolio, now) ==
    SqlUpdate(d, "portfolios", id, ("updatedAt" :> now) @@ portfolio)
\* A delete that also purges the audit rows of the portfolio.
deletePortfolioPurging(d, id) ==
    LET res == SqlDelete(d, "portfolios", id)
    IN  [res EXCEPT !.db.auditLog = SelectSeq(@, LAMBDA a : a.entityId # id)]

deletePortfolio(d, id) == SqlDelete(d, "portfolios", id)

getProgram(d, id) == {r \in d.programs : r.id = id}
createProgram(d, program, id, now) == SqlInsert(d, "programs", program, id, now)
updateProgram(d, id, program, now) ==
    SqlUpdate(d, "programs", id, ("updatedAt" :> now) @@ program)
deleteProgram(d, id) == SqlDelete(d, "programs", id)

getDemand(d, id) == {r \in d.demands : r.id = id}
createDemand(d, demand, id, now) == SqlInsert(d, "demands", demand, id, now)
updateDemand(d, id, demand, now) ==
    SqlUpdate(d, "demands", id, ("updatedAt" :> now) @@ demand)
deleteDemand(d, id) == SqlDelete(d, "demands", id)

getProject(d, id) == {r \in d.projects : r.id = id}
createProject(d, project, id, now) == SqlInsert(d, "projects", project, id, now)
\* An update that replaces the row: the columns the payload leaves out fall
\* back to their defaults.
replaceProject(d, id, project, now) ==
    SqlUpdate(d, "projects", id,
              ("updatedAt" :> now) @@ project @@ ColumnDefaults("projects", now))

updateProject(d, id, project, now) ==
    SqlUpdate(d, "projects", id, ("updatedAt" :> now) @@ project)
deleteProject(d, id) == SqlDelete(d, "projects", id)

getProduct(d, id) == {r \in d.products : r.id = id}
createProduct(d, product, id, now) == SqlInsert(d, "products", product, id, now)
updateProduct(d, id, product, now) ==
    SqlUpdate(d, "products", id, ("updatedAt" :> now) @@ product)
deleteProduct(d, id) == SqlDelete(d, "products", id)

\* insert(auditLog).values(auditLogData): changedBy references users.id;
\* the row gets its timestamp: defaultNow() (its own id is left out).
createAuditLog(d, auditLogData, now) ==
    LET row == auditLogData @@ [timestamp |-> now]
    IN  IF HasRow(d, "users", row.changedBy)
        THEN [err |-> FALSE, db |-> [d EXCEPT !.auditLog = Append(@, row)], rows |-> {row}]
        ELSE [err |-> TRUE, db |-> d, rows |-> {}]

\* The collation of the names a run uses.
NameRank(name) == CASE name = "A" -> 1 [] name = "B" -> 2 [] OTHER -> 3

\* The value a row is ordered by under a column.
SortKey(r, column) == IF column = "name" THEN NameRank(r.name) ELSE r[column]

\* .orderBy(asc(key)) / .orderBy(desc(key)) over the selected rows; rows of
\* equal key come in an order the database picks.
RECURSIVE OrderBy(_, _, _)
OrderBy(S, column, descending) ==
    IF S = {}
    THEN <<>>
    ELSE LET m == CHOOSE a \in S : \A b \in S :
                    IF descending THEN SortKey(a, column) >= SortKey(b, column)
                    ELSE SortKey(a, column) <= SortKey(b, column)
         IN  <<m>> \o OrderBy(S \ {m}, column, descending)

\* A list that ignores the portfolio it is asked for.
getProgramsUnscoped(d, portfolioId) == OrderBy(d.programs, "name", FALSE)

\* if (portfolioId) ...where(eq(programs.portfolioId, portfolioId)): a missing
\* or empty parameter ("") selects every row.
getPrograms(d, portfolioId) ==
    IF portfolioId # ""
    THEN OrderBy({r \in d.programs : r.portfolioId = portfolioId}, "name", FALSE)
    ELSE OrderBy(d.programs, "name", FALSE)

getDemands(d, programId) ==
    IF programId # ""
    THEN OrderBy({r \in d.demands : r.programId = programId}, "createdAt", TRUE)
    ELSE OrderBy(d.demands, "createdAt", TRUE)

getProjects(d, programId) ==
    IF programId # ""
    THEN OrderBy({r \in d.projects : r.programId = programId}, "createdAt", TRUE)
    ELSE OrderBy(d.projects, "createdAt", TRUE)

\* A phase list that returns the inactive phases too.
getPhasesUnfiltered(d, type) ==
    IF type # ""
    THEN OrderBy({r \in d.phases : r.type = type}, "order", FALSE)
    ELSE OrderBy(d.phases, "order", FALSE)

\* getPhases(type?): the active phases, of the type if one is given (and not
\* empty), by order.
getPhases(d, type) ==
    IF type # ""
    THEN OrderBy({r \in d.phases : r.type = type /\ r.isActive = TRUE}, "order", FALSE)
    ELSE OrderBy({r \in d.phases : r.isActive = TRUE}, "order", FALSE)

getPhase(d, id) == {r \in d.phases : r.id = id}
createPhase(d, phase, id) == SqlInsert(d, "phases", phase, id, 0)
updatePhase(d, id, phase) == SqlUpdate(d, "phases", id, phase)

\* getStatuses(type?): the active statuses, of the type if one is given, by name.
getStatuses(d, type) ==
    IF type # ""
    THEN OrderBy({r \in d.statuses : r.type = type /\ r.isActive = TRUE}, "name", FALSE)
    ELSE OrderBy({r \in d.statuses : r.isActive = TRUE}, "name", FALSE)

getStatus(d, id) == {r \in d.statuses : r.id = id}
createStatus(d, status, id) == SqlInsert(d, "statuses", status, id, 0)

\* from(t).innerJoin(statuses, eq(t.statusId, statuses.id)): the pairs of a
\* row that has a statusId and the status row of that id.
JoinStatuses(d, table) ==
    {j \in d[table] \X d.statuses :
        "statusId" \in DOMAIN j[1] /\ j[1].statusId = j[2].id}

\* select count(*) ... where statuses.name is one of names.
CountByStatusName(d, table, names) ==
    Cardinality({j \in JoinStatuses(d, table) : j[2].name \in names})

\* A count that takes every project that has a status.
getDashboardMetricsAnyStatus(d) ==
    [activeProjects |-> Cardinality(JoinStatuses(d, "projects")),
     pendingDemands |-> CountByStatusName(d, "demands", {"Pending", "Under Review"}),
     budgetUtilized |-> 68,
     atRiskProjects |-> Cardinality(JoinStatuses(d, "projects"))]

\* getDashboardMetrics(): three counts over the join with statuses and a
\* budget figure that is a literal of the code.
getDashboardMetrics(d) ==
    [activeProjects |-> CountByStatusName(d, "projects", {"Active"}),
     pendingDemands |-> CountByStatusName(d, "demands", {"Pending", "Under Review"}),
     budgetUtilized |-> 68,
     atRiskProjects |-> CountByStatusName(d, "projects", {"At Risk"})]

\* The rows of the audit log.
AuditRows(d) == {d.auditLog[i] : i \in 1..Len(d.auditLog)}

\* A list whose filters combine with OR when both are given.
getAuditLogsEither(d, entityId, entityType) ==
    OrderBy({a \in AuditRows(d) :
                \/ entityId = "" /\ entityType = ""
                \/ entityId # "" /\ a.entityId = entityId
                \/ entityType # "" /\ a.entityType = entityType},
            "timestamp", TRUE)

\* getAuditLogs(entityId?, entityType?): the filters that are given (and not
\* empty) combine with AND; newest first.
getAuditLogs(d, entityId, entityType) ==
    OrderBy({a \in AuditRows(d) :
                /\ entityId # "" => a.entityId = entityId
                /\ entityType # "" => a.entityType = entityType},
            "timestamp", TRUE)

\* storage.get<Kind>(id), storage.create<Kind>(data), ... by entity kind.
storageGet(kind, d, id) ==
    CASE kind = "portfolio" -> getPortfolio(d, id)
      [] kind = "program"   -> getProgram(d, id)
      [] kind = "demand"    -> getDemand(d, id)
      [] kind = "project"   -> getProject(d, id)
      [] kind = "product"   -> getProduct(d, id)

storageCreate(kind, d, data, id, now) ==
    CASE kind = "portfolio" -> createPortfolio(d, data, id, now)
      [] kind = "program"   -> createProgram(d, data, id, now)
      [] kind = "demand"    -> createDemand(d, data, id, now)
      [] kind = "project"   -> createProject(d, data, id, now)
      [] kind = "product"   -> createProduct(d, data, id, now)

storageUpdate(kind, d, id, data, now) ==
    CASE kind = "portfolio" -> updatePortfolio(d, id, data, now)
      [] kind = "program"   -> updateProgram(d, id, data, now)
      [] kind = "demand"    -> updateDemand(d, id, data, now)
      [] kind = "project"   -> updateProject(d, id, data, now)
      [] kind = "product"   -> updateProduct(d, id, data, now)

storageDelete(kind, d, id) ==
    CASE kind = "portfolio" -> deletePortfolio(d, id)
      [] kind = "program"   -> deleteProgram(d, id)
      [] kind = "demand"    -> deleteDemand(d, id)
      [] kind = "project"   -> deleteProject(d, id)
      [] kind = "product"   -> deleteProduct(d, id)

(***************************************************************************)
(* server/index.ts: startup                                                *)
(***************************************************************************)

\* The default phases initializeDefaultData creates, in creation order.
DefaultPhases ==
    << [name |-> "Idea", type |-> "demand", order |-> 1],
       [name |-> "Analysis", type |-> "demand", order |-> 2],
       [name |-> "Approved", type |-> "demand", order |-> 3],
       [name |-> "Rejected", type |-> "demand", order |-> 4],
       [name |-> "Planning", type |-> "project", order |-> 1],
       [name |-> "Development", type |-> "project", order |-> 2],
       [name |-> "Testing", type |-> "project", order |-> 3],
       [name |-> "Deployment", type |-> "project", order |-> 4],
       [name |-> "Complete", type |-> "project", order |-> 5] >>

\* The default statuses initializeDefaultData creates, in creation order.
DefaultStatuses ==
    << [name |-> "Pending", type |-> "demand", color |-> "yellow"],
       [name |-> "Under Review", type |-> "demand", color |-> "blue"],
       [name |-> "Approved", type |-> "demand", color |-> "green"],
       [name |-> "Rejected", type |-> "demand", color |-> "red"],
       [name |-> "On Hold", type |-> "demand", color |-> "orange"],
       [name |-> "Active", type |-> "project", color |-> "green"],
       [name |-> "On Hold", type |-> "project", color |-> "yellow"],
       [name |-> "At Risk", type |-> "project", color |-> "red"],
       [name |-> "Completed", type |-> "project", color |-> "blue"],
       [name |-> "Cancelled", type |-> "project", color |-> "gray"] >>

\* The identifiers the startup rows were given.
PhaseId(i) == "ph" \o ToString(i)
StatusId(i) == "st" \o ToString(i)

\* The store of a first start: no users, no entities, the default lookups.
initializeDefaultData ==
    [users      |-> {},
     portfolios |-> {},
     programs   |-> {},
     demands    |-> {},
     projects   |-> {},
     products   |-> {},
     phases     |-> {("id" :> PhaseId(i)) @@ DefaultPhases[i] @@ [isActive |-> TRUE] :
                        i \in 1..Len(DefaultPhases)},
     statuses   |-> {("id" :> StatusId(i)) @@ DefaultStatuses[i] @@ [isActive |-> TRUE] :
                        i \in 1..Len(DefaultStatuses)},
     auditLog   |-> <<>>]

(***************************************************************************)
(* server/routes.ts: registerRoutes                                        *)
(***************************************************************************)

\* The fixed identity of development mode.
DevUser == "dev-user-123"

\* The subjects the identity provider signs in (claims.sub); NoActor: a
\* request without a session.
Subjects == {"u1"}
NoActor == "anonymous"
UserIds == Subjects \cup {DevUser}

\* A middleware that lets every request through.
devAuthOpen(actor) == TRUE

\* Who may send a request: development never looks at the session.
Actors == IF env = "development" THEN {NoActor} ELSE Subjects \cup {NoActor}

\* devAuth: development lets every request through, production asks
\* isAuthenticated, which answers 401 without a session.
devAuth(actor) == env = "development" \/ actor # NoActor

\* process.env.NODE_ENV === 'development' ? "dev-user-123" : req.user.claims.sub
userIdOf(actor) == IF env = "development" THEN DevUser ELSE actor

\* No request is being handled.
Idle == req.pc = "idle"

IdleReq ==
    [pc |-> "idle", method |-> "none", kind |-> "none", id |-> "", actor |-> NoActor,
     userId |-> NoActor, body |-> [f |-> <<>>, bad |-> {}], status |-> 0, errors |-> {},
     fault |-> FALSE, pre |-> initializeDefaultData, audit |-> <<>>]

\* A mutating handler makes two writes: there is time left for both.
CanStart == clock + 2 <= MaxClock

\* A request as it enters its handler; pre is the store it finds.
Request(method, kind, id, actor, body) ==
    [pc |-> "run", method |-> method, kind |-> kind, id |-> id, actor |-> actor,
     userId |-> userIdOf(actor), body |-> body, status |-> 0, errors |-> {},
     fault |-> FALSE, pre |-> db, audit |-> <<>>]

\* res.status(code): the request is answered.
Respond(r, code) == [r EXCEPT !.pc = "done", !.status = code]

\* A response that is sent before any statement has taken effect.
Rejected(r, code) == req' = Respond(r, code) /\ UNCHANGED <<db, clock, nextId>>

\* The catch block of a handler for an error that is no ZodError.
Unchanged500(r) == Rejected(r, 500)

\* The catch block of a handler for a ZodError: 400 with error.errors.
Invalid(r, errors) == Rejected([r EXCEPT !.errors = errors], 400)

\* The connection to the database fails under the handler's first statement.
StorageFault(r) == Rejected([r EXCEPT !.fault = TRUE], 500)

\* An audit row that records every change as an update.
AuditDataUpdated(entityType, entityId, changeType, changedBy, details) ==
    [entityType |-> entityType, entityId |-> entityId, changeType |-> "updated",
     changedBy |-> changedBy, details |-> details]

\* The audit row a handler asks for after its entity write.
AuditData(entityType, entityId, changeType, changedBy, details) ==
    [entityType |-> entityType, entityId |-> entityId, changeType |-> changeType,
     changedBy |-> changedBy, details |-> details]

\* The status a handler sends when nothing failed.
SuccessCode(method) ==
    CASE method = "POST" -> 201 [] method = "DELETE" -> 204 [] OTHER -> 200

\* The one row a statement returned.
Returned(res) == CHOOSE row \in res.rows : TRUE

\* A merge in which the body's ownerId wins over the actor's id.
WithOwnerOfBody(body, userId) ==
    [f |-> body.f @@ ("ownerId" :> userId), bad |-> body.bad]

\* {...req.body, ownerId: userId}: the actor's id replaces the body's ownerId.
WithOwner(body, userId) ==
    [f |-> ("ownerId" :> userId) @@ body.f, bad |-> body.bad \ {"ownerId"}]

\* A role check that lets a caller without a user row through.
isAdminOrUnknown(currentUser) == \A u \in currentUser : u.role = "admin"

\* Check if current user exists and is admin.
isAdmin(currentUser) == currentUser # {} /\ \A u \in currentUser : u.role = "admin"

(***************************************************************************)
(* The requests of a run: bodies and ids drawn from small sets             *)
(***************************************************************************)

MissingId == "missing"

\* The ids a client may address in a table: its rows' ids and one that names no row.
IdInputs(table) == {r.id : r \in db[table]} \cup {MissingId}

Body(f) == [f |-> f, bad |-> {}]
BadBody(f, bad) == [f |-> f, bad |-> bad]

CreateBodies(kind) ==
    CASE kind = "portfolio" ->
            {Body([name |-> "A"]), Body([status |-> "on_hold"]), BadBody(<<>>, {"name"}),
             Body([name |-> "A", ownerId |-> "u1"])}
      [] kind = "program" ->
            {Body([name |-> "A", portfolioId |-> p]) : p \in IdInputs("portfolios")}
            \cup {Body([name |-> "A"])}
      [] kind = "demand" ->
            {Body([title |-> "A", programId |-> g]) : g \in IdInputs("programs")}
            \cup {Body([programId |-> MissingId])}
            \cup {Body([title |-> "A", programId |-> g, priority |-> "urgent"]) :
                    g \in IdInputs("programs") \ {MissingId}}
            \cup {Body([title |-> "A", programId |-> g, phaseId |-> PhaseId(5)]) :
                    g \in IdInputs("programs") \ {MissingId}}
      [] kind = "project" ->
            {Body([title |-> "A", programId |-> g]) : g \in IdInputs("programs")}
            \cup {Body([title |-> "A", programId |-> g, demandId |-> m]) :
                    g \in IdInputs("programs") \ {MissingId}, m \in IdInputs("demands")}
            \cup {BadBody([title |-> "A"], {"progress"})}
            \cup {Body([title |-> "A", programId |-> g, progress |-> 101]) :
                    g \in IdInputs("programs") \ {MissingId}}
      [] kind = "product" ->
            {Body([name |-> "A", programId |-> g]) : g \in IdInputs("programs")}
            \cup {BadBody([name |-> "A"], {"programId"})}

UpdateBodies(kind) ==
    CASE kind = "portfolio" ->
            {Body([status |-> "on_hold"]), Body([name |-> "B", budget |-> 100]),
             BadBody(<<>>, {"budget"})}
      [] kind = "project" ->
            {Body([statusId |-> StatusId(8)]), Body([statusId |-> MissingId]),
             Body([title |-> "B", progress |-> 50]), Body([progress |-> 0 - 1]), BadBody(<<>>, {"progress"})}
      [] kind = "product" ->
            {Body([status |-> "active"]), BadBody(<<>>, {"name"})}

RoleInputs == {"admin", "contributor", "superuser"}

(***************************************************************************)
(* The handlers.  A mutating handler runs in two steps: up to the await of *)
(* its entity statement (the request is parsed and the statement takes     *)
(* effect), and from there to the response (the audit insert,              *)
(* WriteAuditLog).  Finish ends the request once the response is sent.     *)
(***************************************************************************)

\* POST /api/<kind>s up to the await of its createAuditLog call.
PostEntity(kind) ==
    /\ Idle
    /\ CanStart
    /\ \E actor \in Actors, body \in CreateBodies(kind) :
        LET r == Request("POST", kind, "", actor, body)
            input == WithOwner(body, r.userId)
        IN  IF ~devAuth(actor)
            THEN Rejected(r, 401)
            ELSE IF ~ParseOk(TableOf(kind), input, FALSE)
            THEN Invalid(r, ParseErrors(TableOf(kind), input, FALSE))
            ELSE \/ StorageFault(r)
                 \/ LET data == ParseData(TableOf(kind), input)
                        res == storageCreate(kind, db, data, NewId(nextId), clock)
                    IN  IF res.err
                        THEN Unchanged500(r)
                        ELSE /\ db' = res.db
                             /\ clock' = clock + 1
                             /\ nextId' = nextId + 1
                             /\ req' = [r EXCEPT !.pc = "audit", !.id = Returned(res).id,
                                           !.audit = AuditData(kind, Returned(res).id,
                                               "created", r.userId, Returned(res))]
    /\ UNCHANGED <<env, out>>

\* PUT /api/<kind>s/:id up to the await of its createAuditLog call; the
\* statement returns no row for a missing id, and reading the id of that
\* result throws.
PutWith(kind, bodies) ==
    /\ Idle
    /\ CanStart
    /\ \E actor \in Actors, id \in IdInputs(TableOf(kind)), body \in bodies :
        LET r == Request("PUT", kind, id, actor, body)
        IN  IF ~devAuth(actor)
            THEN Rejected(r, 401)
            ELSE IF ~ParseOk(TableOf(kind), body, TRUE)
            THEN Invalid(r, ParseErrors(TableOf(kind), body, TRUE))
            ELSE \/ StorageFault(r)
                 \/ LET data == ParseData(TableOf(kind), body)
                        res == storageUpdate(kind, db, id, data, clock)
                    IN  IF res.err \/ res.rows = {}
                        THEN Unchanged500(r)
                        ELSE /\ db' = res.db
                             /\ clock' = clock + 1
                             /\ nextId' = nextId
                             /\ req' = [r EXCEPT !.pc = "audit",
                                           !.audit = AuditData(kind, Returned(res).id,
                                               "updated", r.userId, data)]
    /\ UNCHANGED <<env, out>>

\* PUT /api/<kind>s/:id with the payloads of a run.
PutEntity(kind) == PutWith(kind, UpdateBodies(kind))

\* DELETE /api/<kind>s/:id up to the await of its createAuditLog call.
DeleteEntity(kind) ==
    /\ Idle
    /\ CanStart
    /\ \E actor \in Actors, id \in IdInputs(TableOf(kind)) :
        LET r == Request("DELETE", kind, id, actor, Body(<<>>))
        IN  IF ~devAuth(actor)
            THEN Rejected(r, 401)
            ELSE \/ StorageFault(r)
                 \/ LET res == storageDelete(kind, db, id)
                    IN  IF res.err
                        THEN Unchanged500(r)
                        ELSE /\ db' = res.db
                             /\ clock' = clock + 1
                             /\ nextId' = nextId
                             /\ req' = [r EXCEPT !.pc = "audit",
                                           !.audit = AuditData(kind, id, "deleted",
                                               r.userId, <<>>)]
    /\ UNCHANGED <<env, out>>

\* GET /api/<kind>s/:id
GetEntity(kind) ==
    /\ Idle
    /\ \E actor \in Actors, id \in IdInputs(TableOf(kind)) :
        LET r == Request("GET", kind, id, actor, Body(<<>>))
        IN  IF ~devAuth(actor)
            THEN Rejected(r, 401)
            ELSE \/ StorageFault(r)
                 \/ Rejected(r, IF storageGet(kind, db, id) = {} THEN 404 ELSE 200)
    /\ UNCHANGED <<env, out>>

\* await storage.createAuditLog({...}); res.status(..).json(..): the second
\* step of every mutating handler.
WriteAuditLog ==
    /\ req.pc = "audit"
    /\ LET res == createAuditLog(db, req.audit, clock)
       IN  IF res.err
           THEN Unchanged500(req)
           ELSE /\ db' = res.db
                /\ clock' = clock + 1
                /\ nextId' = nextId
                /\ req' = Respond(req, SuccessCode(req.method))
    /\ UNCHANGED <<env, out>>

\* PUT /api/users/:userId/role up to the await of its createAuditLog call.
PutUserRole ==
    /\ Idle
    /\ CanStart
    /\ \E actor \in Actors, userId \in UserIds, role \in RoleInputs :
        LET r == Request("PUT", "user", userId, actor, Body([role |-> role]))
        IN  IF ~devAuth(actor)
            THEN Rejected(r, 401)
            ELSE \/ StorageFault(r)
                 \/ IF ~isAdmin(getUser(db, r.userId))
                    THEN Rejected(r, 403)
                    ELSE IF role \notin validRoles
                    THEN Rejected(r, 400)
                    ELSE LET res == updateUser(db, userId, [role |-> role])
                         IN  /\ db' = res.db
                             /\ clock' = clock + 1
                             /\ nextId' = nextId
                             /\ req' = [r EXCEPT !.pc = "audit",
                                           !.audit = AuditData("user", userId, "updated",
                                               r.userId, [newRole |-> role])]
    /\ UNCHANGED <<env, out>>

\* GET /api/auth/user: development stores the mock admin identity (a failure
\* of that upsert is ignored); production reads the session's user.
GetAuthUser ==
    /\ Idle
    /\ \E actor \in Actors :
        LET r == Request("GET", "auth", "", actor, Body(<<>>))
        IN  IF env = "development"
            THEN /\ db' \in {db, upsertUser(db, [id |-> DevUser, role |-> "admin"])}
                 /\ req' = Respond(r, 200)
            ELSE /\ db' = db
                 /\ req' = Respond(r, IF actor = NoActor THEN 401 ELSE 200)
    /\ UNCHANGED <<env, clock, nextId, out>>

\* Sign-in through the identity provider: the user row is upserted from the
\* session's claims, which carry no role.
Login ==
    /\ Idle
    /\ \E u \in Subjects :
        /\ db' = upsertUser(db, [id |-> u])
        /\ db' # db
    /\ UNCHANGED <<env, clock, nextId, req, out>>

\* A direct call of storage.delete<Kind>(id), for the kinds no route deletes;
\* the statement stamps no time.
CallDelete(kind) ==
    /\ Idle
    /\ \E id \in IdInputs(TableOf(kind)) :
        LET res == storageDelete(kind, db, id)
            r == Request("CALL", kind, id, NoActor, Body(<<>>))
        IN  /\ db' = res.db
            /\ req' = Respond(r, IF res.err THEN 500 ELSE 204)
    /\ UNCHANGED <<env, clock, nextId, out>>

\* The response has gone out: the handler returns.
Finish ==
    /\ req.pc = "done"
    /\ req' = IdleReq
    /\ out' = <<>>
    /\ UNCHANGED <<db, env, clock, nextId>>

PostPortfolios == PostEntity("portfolio")
PutPortfolio == PutEntity("portfolio")
DeletePortfolio == DeleteEntity("portfolio")
GetPortfolio == GetEntity("portfolio")
PostPrograms == PostEntity("program")
PostDemands == PostEntity("demand")
PostProjects == PostEntity("project")
PutProject == PutEntity("project")
GetProject == GetEntity("project")
PostProducts == PostEntity("product")
PutProduct == PutEntity("product")
DeleteProduct == DeleteEntity("product")
GetProduct == GetEntity("product")
CallDeleteProgram == CallDelete("program")
CallDeleteDemand == CallDelete("demand")
CallDeleteProject == CallDelete("project")

Init ==
    /\ db = initializeDefaultData
    /\ env \in {"development", "production"}
    /\ clock = 0
    /\ nextId = 1
    /\ req = IdleReq
    /\ out = <<>>

Next ==
    \/ PostPortfolios \/ PutPortfolio \/ DeletePortfolio \/ GetPortfolio
    \/ PostPrograms
    \/ PostDemands
    \/ PostProjects \/ PutProject \/ GetProject
    \/ PostProducts \/ PutProduct \/ DeleteProduct \/ GetProduct
    \/ CallDeleteProgram \/ CallDeleteDemand \/ CallDeleteProject
    \/ PutUserRole \/ GetAuthUser \/ Login
    \/ WriteAuditLog
    \/ Finish

Spec == Init /\ [][Next]_vars

(***************************************************************************)
(* The list routes, over stores of up to MaxRows rows a table              *)
(***************************************************************************)

\* Bound on the rows a listed table holds.
MaxRows == 3

ListPortfolioIds == {"f1", "f2"}

\* The name a listed row carries: the names do not follow the ids.
ListName(i) == IF i % 2 = 1 THEN "B" ELSE "A"

\* A store with two portfolios, MaxRows programs spread over them (portfolioOf),
\* and the demands and projects that programOf places under those programs
\* ("": no such row).
ListStore(portfolioOf, programOf) ==
    [initializeDefaultData EXCEPT
        !.users = {[id |-> "u1", role |-> "contributor"]},
        !.portfolios = {NewRow("portfolios", [name |-> "A", ownerId |-> "u1"], f, 0) :
                            f \in ListPortfolioIds},
        !.programs = {NewRow("programs",
                             [name |-> ListName(i), portfolioId |-> portfolioOf[i],
                              ownerId |-> "u1"], NewId(i), i) : i \in 1..MaxRows},
        !.demands = {NewRow("demands",
                            [title |-> ListName(i), programId |-> programOf[i],
                             ownerId |-> "u1"], NewId(MaxRows + i), MaxRows + i) :
                         i \in {j \in 1..MaxRows : programOf[j] # ""}},
        !.projects = {NewRow("projects",
                             [title |-> ListName(i), programId |-> programOf[MaxRows + 1 - i],
                              ownerId |-> "u1"], NewId(2 * MaxRows + i), 2 * MaxRows + i) :
                          i \in {j \in 1..MaxRows : programOf[MaxRows + 1 - j] # ""}}]

InitList ==
    /\ \E portfolioOf \in [1..MaxRows -> ListPortfolioIds],
          programOf \in [1..MaxRows -> {NewId(1), NewId(2), ""}] :
          db = ListStore(portfolioOf, programOf)
    /\ env \in {"development", "production"}
    /\ clock = 3 * MaxRows + 1
    /\ nextId = 3 * MaxRows + 1
    /\ req = IdleReq
    /\ out = <<>>

\* The parent ids a client may list by: the parents' ids, one that names no
\* row, and "" for a request without the parameter.
ParentInputs(table) == {r.id : r \in db[table]} \cup {MissingId, ""}

\* GET /api/programs?portfolioId=
ListPrograms ==
    /\ \E actor \in Actors, portfolioId \in ParentInputs("portfolios") :
        out' = IF devAuth(actor)
               THEN [route |-> "programs", parent |-> portfolioId, status |-> 200,
                     rows |-> getPrograms(db, portfolioId)]
               ELSE [route |-> "programs", parent |-> portfolioId, status |-> 401,
                     rows |-> <<>>]
    /\ UNCHANGED <<db, env, clock, nextId, req>>

\* GET /api/demands?programId=
ListDemands ==
    /\ \E actor \in Actors, programId \in ParentInputs("programs") :
        out' = IF devAuth(actor)
               THEN [route |-> "demands", parent |-> programId, status |-> 200,
                     rows |-> getDemands(db, programId)]
               ELSE [route |-> "demands", parent |-> programId, status |-> 401,
                     rows |-> <<>>]
    /\ UNCHANGED <<db, env, clock, nextId, req>>

\* GET /api/projects?programId=
ListProjects ==
    /\ \E actor \in Actors, programId \in ParentInputs("programs") :
        out' = IF devAuth(actor)
               THEN [route |-> "projects", parent |-> programId, status |-> 200,
                     rows |-> getProjects(db, programId)]
               ELSE [route |-> "projects", parent |-> programId, status |-> 401,
                     rows |-> <<>>]
    /\ UNCHANGED <<db, env, clock, nextId, req>>

NextList == ListPrograms \/ ListDemands \/ ListProjects

SpecList == InitList /\ [][NextList]_vars

(***************************************************************************)
(* The User upsert, called with the claims of successive sign-ins          *)
(***************************************************************************)

UpsertIds == {"u1", "u2"}

\* The values a claim may carry; "": the claim is not in the call.
UpsertFirstNames == {"", "A", "B", Null}
UpsertEmails == {"", "a@x", "b@x"}

\* The userData of a call: the id and the optional fields that are given.
UserData(id, firstName, email) ==
    [c \in {"id"} \cup (IF firstName = "" THEN {} ELSE {"firstName"})
                  \cup (IF email = "" THEN {} ELSE {"email"}) |->
        CASE c = "id" -> id [] c = "firstName" -> firstName [] c = "email" -> email]

InitUpsert ==
    /\ db = initializeDefaultData
    /\ env = "production"
    /\ clock = 0
    /\ nextId = 1
    /\ req = IdleReq
    /\ out = <<>>

\* storage.upsertUser(userData)
CallUpsertUser ==
    /\ \E id \in UpsertIds, firstName \in UpsertFirstNames, email \in UpsertEmails :
        LET userData == UserData(id, firstName, email)
            r == Request("CALL", "user", id, NoActor, Body(userData))
        IN  /\ db' = upsertUser(db, userData)
            /\ req' = Respond(r, IF EmailTaken(db, userData) THEN 500 ELSE 200)
    /\ UNCHANGED <<env, clock, nextId, out>>

NextUpsert == CallUpsertUser

SpecUpsert == InitUpsert /\ [][NextUpsert]_vars

(***************************************************************************)
(* The lookup tables: phases and statuses, over a store that holds a user, *)
(* a portfolio, a program and a demand in one of the default phases        *)
(***************************************************************************)

\* Bound on the lookup rows a run creates.
MaxLookups == 2

LookupStore(phaseId) ==
    [initializeDefaultData EXCEPT
        !.users = {[id |-> "u1", role |-> "contributor"]},
        !.portfolios = {NewRow("portfolios", [name |-> "A", ownerId |-> "u1"], "f1", 0)},
        !.programs = {NewRow("programs", [name |-> "A", portfolioId |-> "f1",
                                          ownerId |-> "u1"], "g1", 0)},
        !.demands = {NewRow("demands", [title |-> "A", programId |-> "g1",
                                         phaseId |-> phaseId, ownerId |-> "u1"], "d1", 0)}]

InitLookup ==
    /\ \E phaseId \in {PhaseId(1), PhaseId(4)} : db = LookupStore(phaseId)
    /\ env \in {"development", "production"}
    /\ clock = 1
    /\ nextId = 1
    /\ req = IdleReq
    /\ out = <<>>

\* The payloads of POST /api/phases and POST /api/statuses.
LookupBodies(kind) ==
    CASE kind = "phase" ->
            {Body([name |-> "A", type |-> "demand", order |-> 5]),
             Body([name |-> "A", type |-> "project", order |-> 1]),
             Body([name |-> "A", type |-> "task", order |-> 1]),
             Body([name |-> "A", type |-> "demand"]),
             Body([name |-> "A", type |-> "demand", order |-> 9, isActive |-> FALSE]),
             BadBody([name |-> "A", type |-> "demand"], {"order"})}
      [] kind = "status" ->
            {Body([name |-> "A", type |-> "project", color |-> "red"]),
             Body([name |-> "A", type |-> "task"]),
             Body([name |-> "A"])}

\* The phases a run addresses by id.
PhaseIdInputs == {PhaseId(1), PhaseId(4), MissingId}

\* The types a list is asked for; "": the parameter is not given.
TypeInputs == {"", "demand", "project"}

\* The handler of POST /api/phases and of POST /api/statuses: parse, insert,
\* answer 201; no audit row is written.
CreateLookup(method, kind, actor, body) ==
    LET r == Request(method, kind, "", actor, body)
    IN  IF ~devAuth(actor)
        THEN Rejected(r, 401)
        ELSE IF ~ParseOk(TableOf(kind), body, FALSE)
        THEN Invalid(r, ParseErrors(TableOf(kind), body, FALSE))
        ELSE \/ StorageFault(r)
             \/ LET data == ParseData(TableOf(kind), body)
                    res == IF kind = "phase"
                           THEN createPhase(db, data, NewId(nextId))
                           ELSE createStatus(db, data, NewId(nextId))
                IN  /\ db' = res.db
                    /\ nextId' = nextId + 1
                    /\ clock' = clock
                    /\ req' = Respond([r EXCEPT !.id = Returned(res).id], 201)

PostLookup(kind) ==
    /\ Idle
    /\ nextId <= MaxLookups
    /\ \E actor \in Actors, body \in LookupBodies(kind) :
          CreateLookup("POST", kind, actor, body)
    /\ UNCHANGED <<env, out>>

PostPhases == PostLookup("phase")
PostStatuses == PostLookup("status")

\* The largest of a set of orders and 0: Math.max(...orders, 0).
MaxOrder(orders) == CHOOSE m \in orders \cup {0} : \A o \in orders \cup {0} : o <= m

\* Workflow.handleCreatePhase in a signed-in browser: the form takes the
\* phases of the selected type as the list route returns them, and posts
\* the name, the type and the next order.
WorkflowCreatePhase ==
    /\ Idle
    /\ nextId <= MaxLookups
    /\ \E actor \in {a \in Actors : devAuth(a)}, selectedType \in {"demand", "project"} :
        LET phases == getPhases(db, selectedType)
            maxOrder == MaxOrder({phases[i].order : i \in 1..Len(phases)})
        IN  CreateLookup("FORM", "phase", actor,
                         Body([name |-> "A", type |-> selectedType, order |-> maxOrder + 1]))
    /\ UNCHANGED <<env, out>>

\* GET /api/phases?type=
ListPhases ==
    /\ Idle
    /\ \E actor \in Actors, type \in TypeInputs :
        LET r == Request("GET", "phase", "", actor, Body([type |-> type]))
        IN  IF devAuth(actor)
            THEN req' = Respond(r, 200) /\ out' = getPhases(db, type)
            ELSE req' = Respond(r, 401) /\ out' = <<>>
    /\ UNCHANGED <<db, env, clock, nextId>>

\* GET /api/statuses?type=
ListStatuses ==
    /\ Idle
    /\ \E actor \in Actors, type \in TypeInputs :
        LET r == Request("GET", "status", "", actor, Body([type |-> type]))
        IN  IF devAuth(actor)
            THEN req' = Respond(r, 200) /\ out' = getStatuses(db, type)
            ELSE req' = Respond(r, 401) /\ out' = <<>>
    /\ UNCHANGED <<db, env, clock, nextId>>

\* A direct call of storage.getPhase(id): the row, or nothing.
CallGetPhase ==
    /\ Idle
    /\ \E id \in PhaseIdInputs :
        LET r == Request("CALL_GET", "phase", id, NoActor, Body(<<>>))
            found == getPhase(db, id)
        IN  /\ req' = Respond(r, IF found = {} THEN 404 ELSE 200)
            /\ out' = IF found = {} THEN <<>> ELSE <<Returned([rows |-> found])>>
    /\ UNCHANGED <<db, env, clock, nextId>>

\* A direct call of storage.updatePhase(id, {isActive}) (no route calls it).
CallUpdatePhase ==
    /\ Idle
    /\ \E id \in PhaseIdInputs, isActive \in BOOLEAN :
        LET r == Request("CALL_UPDATE", "phase", id, NoActor, Body([isActive |-> isActive]))
            res == updatePhase(db, id, [isActive |-> isActive])
        IN  /\ db' = res.db
            /\ req' = Respond(r, IF res.rows = {} THEN 404 ELSE 200)
    /\ UNCHANGED <<env, clock, nextId, out>>

NextLookup ==
    \/ PostPhases \/ PostStatuses \/ WorkflowCreatePhase
    \/ ListPhases \/ ListStatuses
    \/ CallGetPhase \/ CallUpdatePhase
    \/ Finish

SpecLookup == InitLookup /\ [][NextLookup]_vars

(***************************************************************************)
(* The dashboard: projects that carry a status, PUT /api/projects/:id and  *)
(* GET /api/dashboard/metrics                                              *)
(***************************************************************************)

\* The statuses the projects of the first state carry ("" is no status).
MetricsStatusInputs == {"", StatusId(6), StatusId(7), StatusId(8)}

MetricsProject(i, statusId) ==
    NewRow("projects",
           [title |-> "A", programId |-> "g1", ownerId |-> "u1"]
               @@ (IF statusId = "" THEN <<>> ELSE [statusId |-> statusId]),
           NewId(i), 0)

MetricsStore(s1, s2, sd) ==
    [initializeDefaultData EXCEPT
        !.users = {[id |-> "u1", role |-> "contributor"]},
        !.portfolios = {NewRow("portfolios", [name |-> "A", ownerId |-> "u1"], "f1", 0)},
        !.programs = {NewRow("programs", [name |-> "A", portfolioId |-> "f1",
                                          ownerId |-> "u1"], "g1", 0)},
        !.demands = {NewRow("demands", [title |-> "A", programId |-> "g1",
                                         statusId |-> sd, ownerId |-> "u1"], "d1", 0)},
        !.projects = {MetricsProject(1, s1), MetricsProject(2, s2)}]

InitMetrics ==
    /\ \E s1 \in MetricsStatusInputs, s2 \in MetricsStatusInputs,
          sd \in {StatusId(1), StatusId(3)} : db = MetricsStore(s1, s2, sd)
    /\ env \in {"development", "production"}
    /\ clock = 3
    /\ nextId = 3
    /\ req = IdleReq
    /\ out = <<>>

\* GET /api/dashboard/metrics
GetMetrics ==
    /\ Idle
    /\ \E actor \in Actors :
        LET r == Request("GET", "metrics", "", actor, Body(<<>>))
        IN  IF ~devAuth(actor)
            THEN Rejected(r, 401) /\ out' = <<>>
            ELSE \/ StorageFault(r) /\ out' = <<>>
                 \/ Rejected(r, 200) /\ out' = <<getDashboardMetrics(db)>>
    /\ UNCHANGED env

NextMetrics ==
    \/ PutProject
    \/ WriteAuditLog
    \/ GetMetrics
    \/ Finish

SpecMetrics == InitMetrics /\ [][NextMetrics]_vars

(***************************************************************************)
(* The audit list: updates of a portfolio and of two projects, and         *)
(* GET /api/audit                                                          *)
(***************************************************************************)

\* A store with a second user, at a time that leaves room for three updates.
InitAudit ==
    /\ \E s1 \in {"", StatusId(6)} :
          db = [MetricsStore(s1, StatusId(8), StatusId(1)) EXCEPT
                    !.users = @ \cup {[id |-> "u2", role |-> "contributor"]}]
    /\ env \in {"development", "production"}
    /\ clock = 2
    /\ nextId = 3
    /\ req = IdleReq
    /\ out = <<>>

\* GET /api/audit?entityId=&entityType= ("": the parameter is not given).
GetAudit ==
    /\ Idle
    /\ \E actor \in Actors, entityId \in {"", "f1", NewId(1), MissingId},
          entityType \in {"", "portfolio", "project"} :
        LET r == Request("GET", "audit", "", actor,
                         Body([entityId |-> entityId, entityType |-> entityType]))
        IN  IF ~devAuth(actor)
            THEN Rejected(r, 401) /\ out' = <<>>
            ELSE \/ StorageFault(r) /\ out' = <<>>
                 \/ Rejected(r, 200) /\ out' = getAuditLogs(db, entityId, entityType)
    /\ UNCHANGED env

\* PUT /api/portfolios/:id with a payload that names another user as owner,
\* or one that renames the portfolio.
PutOwner == PutWith("portfolio", {Body([ownerId |-> "u2"]), Body([name |-> "B"])})

NextAudit ==
    \/ PutOwner
    \/ PutProject
    \/ WriteAuditLog
    \/ GetAudit
    \/ Finish

SpecAudit == InitAudit /\ [][NextAudit]_vars

(***************************************************************************)
(* The user search: GET /api/users/search over users whose text columns    *)
(* are sequences of characters                                             *)
(***************************************************************************)

\* Bound on the user rows of the searched store.
MaxUsers == 21

\* text LIKE pattern of PostgreSQL: "%" stands for any run of characters,
\* "_" for any one character, every other character for itself; the
\* comparison keeps the letter case.
RECURSIVE like(_, _)
like(text, pattern) ==
    IF pattern = <<>>
    THEN text = <<>>
    ELSE IF Head(pattern) = "%"
    THEN like(text, Tail(pattern)) \/ (text # <<>> /\ like(Tail(text), pattern))
    ELSE /\ text # <<>>
         /\ Head(pattern) \in {"_", Head(text)}
         /\ like(Tail(text), Tail(pattern))

\* The subsets of S with k elements.
RECURSIVE KSubsets(_, _)
KSubsets(S, k) ==
    IF k = 0 THEN {{}}
    ELSE UNION {{T \cup {x} : T \in KSubsets(S \ {x}, k - 1)} : x \in S}

\* searchUsers(query): the answers the statement may give. A NULL column
\* matches nothing; limit(20) without an order keeps any 20 of the rows.
searchUsers(d, query) ==
    LET pattern == <<"%">> \o query \o <<"%">>
        matched == {u \in d.users :
                       \E c \in {"firstName", "lastName", "email"} \cap DOMAIN u :
                           like(u[c], pattern)}
        over == IF Cardinality(matched) > 20 THEN Cardinality(matched) - 20 ELSE 0
    IN  {matched \ D : D \in KSubsets(matched, over)}

\* n users: the odd ones carry one first name, the even ones another; the
\* first has an email address.
InitSearch ==
    /\ \E n \in {1, 2, MaxUsers} :
       \E odd \in {<<"a", "b">>, <<"A", "b">>, <<"b">>}, even \in {<<"a", "b">>, <<"A", "b">>, <<"b">>} :
          db = [initializeDefaultData EXCEPT
                  !.users = {[id |-> "u" \o ToString(i), role |-> "contributor",
                              firstName |-> IF i % 2 = 1 THEN odd ELSE even]
                                @@ (IF i = 1 THEN [email |-> <<"a", "@", "x">>] ELSE <<>>) :
                             i \in 1..n}]
    /\ env \in {"development", "production"}
    /\ clock = 0
    /\ nextId = 1
    /\ req = IdleReq
    /\ out = <<>>

\* GET /api/users/search?q=: an empty q is answered before storage is called.
GetUsersSearch ==
    /\ Idle
    /\ \E actor \in Actors,
          query \in {<<>>, <<"a">>, <<"A">>, <<"b", "a">>, <<"_", "b">>} :
        LET r == Request("GET", "search", "", actor, Body([q |-> query]))
        IN  IF ~devAuth(actor)
            THEN Rejected(r, 401) /\ out' = <<>>
            ELSE IF query = <<>>
            THEN Rejected(r, 200) /\ out' = <<{}>>
            ELSE \/ StorageFault(r) /\ out' = <<>>
                 \/ Rejected(r, 200) /\ \E users \in searchUsers(db, query) : out' = <<users>>
    /\ UNCHANGED env

NextSearch == GetUsersSearch \/ Finish

SpecSearch == InitSearch /\ [][NextSearch]_vars

(***************************************************************************)
(* Budgets in the client: the forms that save a budget and the places      *)
(* that show one                                                           *)
(***************************************************************************)

\* Bound on the small amounts a run enters.
MaxAmount == 5

\* A number that may be missing is a sequence of at most one number: <<>>
\* is the empty field, the null payload, the NULL column.
\* budget: data.budget ? parseInt(data.budget) * 100 : null
budgetPayload(entered) == IF entered = <<>> THEN <<>> ELSE <<entered[1] * 100>>

\* The budget column of a row as the client receives it.
budgetOf(row) == IF "budget" \in DOMAIN row THEN <<row.budget>> ELSE <<>>

\* formatBudget(budget): "N/A" for null and for 0, else budget / 100 as US
\* dollars without fraction digits.
formatBudget(budget) ==
    IF budget \in {<<>>, <<0>>} THEN "N/A" ELSE [usd |-> (budget[1] + 50) \div 100]

\* form.reset({budget: budget ? (budget / 100).toString() : ""}): the
\* decimal numeral of budget / 100, held as its whole part and its
\* hundredths.
formResetBudget(budget) ==
    IF budget \in {<<>>, <<0>>}
    THEN ""
    ELSE [whole |-> budget[1] \div 100, hundredths |-> budget[1] % 100]

\* The project status page: {project.budget && ...${Number(project.budget)
\* .toLocaleString()}}: nothing for null, the bare 0 for 0, else the stored
\* number behind a dollar sign.
projectStatusBudget(budget) ==
    IF budget = <<>> THEN "" ELSE IF budget = <<0>> THEN "0" ELSE [usd |-> budget[1]]

\* A store with a portfolio and two projects that carry no budget.
InitBudget ==
    /\ db = MetricsStore("", "", StatusId(1))
    /\ env \in {"development", "production"}
    /\ clock = 1
    /\ nextId = 3
    /\ req = IdleReq
    /\ out = <<>>

\* updateMutation of the portfolio page and of the project modal: the
\* entered budget goes out as budgetPayload; the column is a 32-bit
\* integer, and the statement fails for an amount whose hundredfold is
\* beyond it.
SaveBudget ==
    /\ Idle
    /\ clock < MaxClock
    /\ \E actor \in {a \in Actors : devAuth(a)}, kind \in {"portfolio", "project"},
          entered \in {<<d>> : d \in (0..MaxAmount) \cup {500000, 21474836, 21474837}}
                          \cup {<<>>} :
        LET id == IF kind = "portfolio" THEN "f1" ELSE NewId(1)
            r == Request("FORM", kind, id, actor, Body([budget |-> entered]))
            payload == budgetPayload(entered)
            old == RowOf(db, TableOf(kind), id)
            cleared == [c \in DOMAIN old \ {"budget"} |-> old[c]]
            res == IF payload = <<>>
                   THEN storageUpdate(kind, [db EXCEPT ![TableOf(kind)] =
                                                (@ \ {old}) \cup {cleared}],
                                      id, <<>>, clock)
                   ELSE storageUpdate(kind, db, id, [budget |-> payload[1]], clock)
        IN  IF entered # <<>> /\ entered[1] > 2147483647 \div 100
            THEN Unchanged500(r)
            ELSE /\ db' = res.db
                 /\ clock' = clock + 1
                 /\ nextId' = nextId
                 /\ req' = Respond(r, 200)
    /\ UNCHANGED <<env, out>>

NextBudget == SaveBudget \/ Finish

SpecBudget == InitBudget /\ [][NextBudget]_vars

(***************************************************************************)
(* Seeding: initializeDefaultData at the start of each process instance    *)
(* and POST /api/seed-data run the same inserts, one statement at a time   *)
(***************************************************************************)

\* Bound on the runs of the routine that overlap.
MaxSeeders == 2

\* The i-th insert of the routine: demand phases, demand statuses, project
\* phases, project statuses.
SeedInsert(i) ==
    CASE i \in 1..4   -> [table |-> "phases", row |-> DefaultPhases[i]]
      [] i \in 5..9   -> [table |-> "statuses", row |-> DefaultStatuses[i - 4]]
      [] i \in 10..14 -> [table |-> "phases", row |-> DefaultPhases[i - 5]]
      [] i \in 15..19 -> [table |-> "statuses", row |-> DefaultStatuses[i - 9]]

\* An empty database; req[p] is the position of run p in the routine.
InitSeed ==
    /\ db = [initializeDefaultData EXCEPT !.phases = {}, !.statuses = {}]
    /\ env \in {"development", "production"}
    /\ clock = 0
    /\ nextId = 1
    /\ req = [p \in 1..MaxSeeders |-> [pc |-> "seed", step |-> 1]]
    /\ out = <<>>

\* try { await storage.createPhase(phase) } catch { /* ignore */ }, and the
\* same for a status: the row gets a fresh id (gen_random_uuid(), here the
\* pair of the run and the step); an error of the statement is swallowed.
SeedStep ==
    \E p \in 1..MaxSeeders :
        /\ req[p].pc = "seed"
        /\ LET i == req[p].step
               ins == SeedInsert(i)
               id == "s" \o ToString(p) \o "-" \o ToString(i)
               res == IF ins.table = "phases"
                      THEN createPhase(db, ins.row, id)
                      ELSE createStatus(db, ins.row, id)
           IN  /\ db' = IF res.err THEN db ELSE res.db
               /\ req' = [req EXCEPT ![p] = IF i = 19
                                              THEN [pc |-> "done", step |-> i]
                                              ELSE [pc |-> "seed", step |-> i + 1]]
        /\ UNCHANGED <<env, clock, nextId, out>>

SpecSeed == InitSeed /\ [][SeedStep]_vars

(***************************************************************************)
(* The two writes of a handler when the second one fails: creates and      *)
(* deletes of portfolios over a populated store                            *)
(***************************************************************************)

\* await storage.createAuditLog(...) throws (the connection is lost): the
\* catch block answers 500; the entity write of the first statement stays.
AuditFault ==
    /\ req.pc = "audit"
    /\ StorageFault(req)
    /\ UNCHANGED <<env, out>>

NextAtomic ==
    \/ PostPortfolios \/ DeletePortfolio
    \/ WriteAuditLog
    \/ AuditFault
    \/ Finish

SpecAtomic == InitAudit /\ [][NextAtomic]_vars

(***************************************************************************)
(* Storage failures: every route with the storage call of its handler      *)
(* throwing an error of the driver                                         *)
(***************************************************************************)

\* The routes and the message of the catch block of each.
RouteMessages ==
    {<<"GET", "/api/auth/user", "Failed to fetch user">>,
     <<"GET", "/api/portfolios", "Failed to fetch portfolios">>,
     <<"GET", "/api/portfolios/:id", "Failed to fetch portfolio">>,
     <<"POST", "/api/portfolios", "Failed to create portfolio">>,
     <<"PUT", "/api/portfolios/:id", "Failed to update portfolio">>,
     <<"DELETE", "/api/portfolios/:id", "Failed to delete portfolio">>,
     <<"GET", "/api/programs", "Failed to fetch programs">>,
     <<"POST", "/api/programs", "Failed to create program">>,
     <<"GET", "/api/demands", "Failed to fetch demands">>,
     <<"POST", "/api/demands", "Failed to create demand">>,
     <<"GET", "/api/projects", "Failed to fetch projects">>,
     <<"GET", "/api/projects/:id", "Failed to fetch project">>,
     <<"POST", "/api/projects", "Failed to create project">>,
     <<"PUT", "/api/projects/:id", "Failed to update project">>,
     <<"GET", "/api/phases", "Failed to fetch phases">>,
     <<"POST", "/api/phases", "Failed to create phase">>,
     <<"GET", "/api/statuses", "Failed to fetch statuses">>,
     <<"POST", "/api/statuses", "Failed to create status">>,
     <<"GET", "/api/dashboard/metrics", "Failed to fetch dashboard metrics">>,
     <<"GET", "/api/users/search", "Failed to search users">>,
     <<"GET", "/api/audit", "Failed to fetch audit logs">>,
     <<"PUT", "/api/users/:userId/role", "Failed to update user role">>,
     <<"POST", "/api/seed-data", "Failed to initialize seed data">>}

\* A catch block that passes the error's own message on.
catchBlockRaw(route, error) == [status |-> 500, body |-> [message |-> error]]

\* catch (error) { console.error(..., error); res.status(500).json({message}) }
catchBlock(route, error) == [status |-> 500, body |-> [message |-> route[3]]]

\* A request whose handler reaches storage, and storage throws error. The
\* development branch of GET /api/auth/user and the inserts of
\* POST /api/seed-data sit in a try of their own that swallows the error.
FailedRequest ==
    /\ Idle
    /\ \E route \in RouteMessages, actor \in Actors,
          error \in {"connect ECONNREFUSED 10.0.0.5:5432",
                     "relation \"portfolios\" does not exist"} :
        LET r == Request(route[1], route[2], "", actor, Body(<<>>))
            thrown == [r EXCEPT !.fault = TRUE, !.errors = {error}]
            caught == catchBlock(route, error)
        IN  IF route[2] = "/api/auth/user" /\ env = "development"
            THEN /\ req' = Respond(thrown, 200)
                 /\ out' = <<[id |-> DevUser, role |-> "admin"]>>
            ELSE IF ~devAuth(actor)
            THEN /\ req' = Respond(r, 401)
                 /\ out' = <<[message |-> "Unauthorized"]>>
            ELSE IF route[2] = "/api/seed-data"
            THEN /\ req' = Respond(thrown, 200)
                 /\ out' = <<[message |-> "Seed data initialized successfully"]>>
            ELSE /\ req' = Respond(thrown, caught.status)
                 /\ out' = <<caught.body>>
    /\ UNCHANGED <<db, env, clock, nextId>>

NextFault == FailedRequest \/ Finish

SpecFault == Init /\ [][NextFault]_vars

(***************************************************************************)
(* Handlers in flight together: each await of a handler is a step of its   *)
(* own, and the steps of several requests interleave                       *)
(***************************************************************************)

\* Bound on the requests that are handled at a time.
MaxHandlers == 2

\* Two admins and a project; req[p] is the handler p, here at rest.
InitRace ==
    /\ db = [MetricsStore("", "", StatusId(1)) EXCEPT
                !.users = {[id |-> "u1", role |-> "admin"], [id |-> "u2", role |-> "admin"]}]
    /\ env = "production"
    /\ clock = 4
    /\ nextId = 3
    /\ req = [p \in 1..MaxHandlers |->
                [pc |-> "idle", kind |-> "none", id |-> "", userId |-> "",
                 body |-> <<>>, status |-> 0, audit |-> <<>>]]
    /\ out = <<>>

\* A signed-in user sends PUT /api/projects/:id or PUT /api/users/:id/role;
\* the handler runs to its first await. Time is left for the two writes of
\* every handler in flight.
RaceStart ==
    \E p \in 1..MaxHandlers :
        /\ req[p].pc = "idle"
        /\ clock + 2 * (1 + Cardinality({q \in DOMAIN req :
                                            req[q].pc \in {"check", "update", "audit"}}))
              <= MaxClock
        /\ \E userId \in {"u1", "u2"} :
              \/ \E title \in {"B", "C"} :
                    req' = [req EXCEPT ![p] =
                              [@ EXCEPT !.pc = "update", !.kind = "project", !.id = NewId(1),
                                        !.userId = userId, !.body = [title |-> title]]]
              \/ \E id \in {"u1", "u2"}, role \in {"admin", "contributor"} :
                    req' = [req EXCEPT ![p] =
                              [@ EXCEPT !.pc = "check", !.kind = "user", !.id = id,
                                        !.userId = userId, !.body = [role |-> role]]]
        /\ UNCHANGED <<db, env, clock, nextId, out>>

\* const currentUser = await storage.getUser(currentUserId) and the test of
\* its role: 403, or on to the update.
RaceCheck ==
    \E p \in 1..MaxHandlers :
        /\ req[p].pc = "check"
        /\ req' = [req EXCEPT ![p] =
                      IF isAdmin(getUser(db, req[p].userId))
                      THEN [@ EXCEPT !.pc = "update"]
                      ELSE [@ EXCEPT !.pc = "done", !.status = 403]]
        /\ UNCHANGED <<db, env, clock, nextId, out>>

\* await storage.updateProject(id, projectData) / await
\* storage.updateUser(userId, {role}): the write is committed on its own.
RaceWrite ==
    \E p \in 1..MaxHandlers :
        /\ req[p].pc = "update"
        /\ LET r == req[p]
               res == IF r.kind = "project"
                      THEN updateProject(db, r.id, r.body, clock)
                      ELSE updateUser(db, r.id, r.body)
           IN  /\ db' = res.db
               /\ req' = [req EXCEPT ![p] =
                             [@ EXCEPT !.pc = "audit",
                                       !.audit = AuditData(r.kind, r.id, "updated",
                                                           r.userId, r.body)]]
        /\ clock' = clock + 1
        /\ UNCHANGED <<env, nextId, out>>

\* await storage.createAuditLog({...}); res.json(...)
RaceAudit ==
    \E p \in 1..MaxHandlers :
        /\ req[p].pc = "audit"
        /\ LET res == createAuditLog(db, req[p].audit, clock)
           IN  /\ db' = res.db
               /\ req' = [req EXCEPT ![p] =
                             [@ EXCEPT !.pc = "done",
                                       !.status = IF res.err THEN 500 ELSE 200]]
        /\ clock' = clock + 1
        /\ UNCHANGED <<env, nextId, out>>

\* The response has gone out: the handler returns.
RaceReturn ==
    \E p \in 1..MaxHandlers :
        /\ req[p].pc = "done"
        /\ req' = [req EXCEPT ![p] =
                      [pc |-> "idle", kind |-> "none", id |-> "", userId |-> "",
                       body |-> <<>>, status |-> 0, audit |-> <<>>]]
        /\ UNCHANGED <<db, env, clock, nextId, out>>

NextRace == RaceStart \/ RaceCheck \/ RaceWrite \/ RaceAudit \/ RaceReturn

SpecRace == InitRace /\ [][NextRace]_vars

(***************************************************************************)
(* The DataTable component: its three pieces of state, the search box,     *)
(* the filter select and the two page buttons. Here db holds the props     *)
(* (data, pageSize) and req the state of the component.                    *)
(***************************************************************************)

\* Bound on the rows of the data prop.
MaxTableRows == 5

\* toLowerCase() of a character.
Lower(c) == CASE c = "A" -> "a" [] c = "B" -> "b" [] OTHER -> c

\* text.toLowerCase().includes(query.toLowerCase())
ContainsNoCase(text, query) ==
    \E i \in 1..(Len(text) - Len(query) + 1) :
        \A j \in 1..Len(query) : Lower(text[i + j - 1]) = Lower(query[j])

\* data.filter(item => matchesSearch && matchesFilter): a value that is
\* empty is falsy and matches no search; the filter compares status (the
\* rows have no type).
filteredData(data, searchQuery, filter) ==
    LET matches(item) ==
            /\ \E c \in DOMAIN item : item[c] # <<>> /\ ContainsNoCase(item[c], searchQuery)
            /\ filter # <<>> =>
                  /\ Len(item.status) = Len(filter)
                  /\ ContainsNoCase(item.status, filter)
    IN  SelectSeq(data, matches)

\* Math.ceil(filteredData.length / pageSize)
totalPages(length, pageSize) == (length + pageSize - 1) \div pageSize

\* filteredData.slice(startIndex, startIndex + pageSize)
paginatedData(filtered, currentPage, pageSize) ==
    LET startIndex == (currentPage - 1) * pageSize
    IN  SubSeq(filtered, startIndex + 1,
               IF startIndex + pageSize < Len(filtered)
               THEN startIndex + pageSize ELSE Len(filtered))

\* The table is mounted: the first n rows of a list, a page size, no
\* search, no filter, page 1.
InitTable ==
    /\ \E n \in 0..MaxTableRows, pageSize \in {1, 2} :
          db = [data |-> [i \in 1..n |->
                            [id |-> <<ToString(i)>>,
                             name |-> IF i % 2 = 1 THEN <<"a", "B">> ELSE <<"b">>,
                             status |-> IF i <= 3 THEN <<"o", "n">> ELSE <<"o", "f", "f">>]],
                pageSize |-> pageSize]
    /\ env = "production"
    /\ clock = 0
    /\ nextId = 1
    /\ req = [searchQuery |-> <<>>, filter |-> <<>>, currentPage |-> 1]
    /\ out = <<>>

\* onChange={(e) => setSearchQuery(e.target.value)}
SetSearchQuery ==
    /\ \E text \in {<<>>, <<"a">>, <<"A", "b">>, <<"o", "f">>, <<"x">>} :
          req' = [req EXCEPT !.searchQuery = text]
    /\ UNCHANGED <<db, env, clock, nextId, out>>

\* handleFilterChange(value): setFilter(value); setCurrentPage(1)
handleFilterChange ==
    /\ \E value \in {<<>>, <<"o", "n">>, <<"o", "f", "f">>} :
          req' = [req EXCEPT !.filter = value, !.currentPage = 1]
    /\ UNCHANGED <<db, env, clock, nextId, out>>

\* The Previous button: rendered while totalPages > 1, disabled on page 1.
PreviousPage ==
    /\ totalPages(Len(filteredData(db.data, req.searchQuery, req.filter)), db.pageSize) > 1
    /\ req.currentPage # 1
    /\ req' = [req EXCEPT !.currentPage = @ - 1]
    /\ UNCHANGED <<db, env, clock, nextId, out>>

\* The Next button: rendered while totalPages > 1, disabled on the last
\* page (and on no other; the run stops clicking at page MaxTableRows).
NextPage ==
    /\ req.currentPage < MaxTableRows
    /\ totalPages(Len(filteredData(db.data, req.searchQuery, req.filter)), db.pageSize) > 1
    /\ req.currentPage #
          totalPages(Len(filteredData(db.data, req.searchQuery, req.filter)), db.pageSize)
    /\ req' = [req EXCEPT !.currentPage = @ + 1]
    /\ UNCHANGED <<db, env, clock, nextId, out>>

NextTable == SetSearchQuery \/ handleFilterChange \/ PreviousPage \/ NextPage

SpecTable == InitTable /\ [][NextTable]_vars

(***************************************************************************)
(* Vocabulary of the properties                                            *)
(***************************************************************************)

\* The response of the request is out.
Done == req.pc = "done"

\* The request went through a route of a core entity.
CoreRequest(methods) ==
    Done /\ req.kind \in Kinds /\ req.method \in methods /\ req.status # 401

Succeeded == req.status = SuccessCode(req.method)

ChangeTypeOf(method) ==
    CASE method = "POST" -> "created" [] method = "PUT" -> "updated"
      [] method = "DELETE" -> "deleted"

\* The core entity tables of a store.
CoreRows(d) == [t \in CoreTables |-> d[t]]

\* The payload of the request as its handler parses it fails the schema.
InvalidPayload ==
    LET table == TableOf(req.kind)
        input == IF req.method = "POST" THEN WithOwner(req.body, req.userId) ELSE req.body
    IN  \/ input.bad \cap SchemaColumns(table) # {}
        \/ /\ req.method = "POST"
           /\ \E c \in SchemaRequired(table) : c \notin DOMAIN input.f

\* The rows the request's audit-log inserts added.
AuditAdded == SubSeq(db.auditLog, Len(req.pre.auditLog) + 1, Len(db.auditLog))

(***************************************************************************)
(* C1: when a create, update or delete of a core entity answers success,   *)
(* the audit log holds exactly one row of that request, and the row names  *)
(* the entity kind, the id of the row the request wrote, the change type   *)
(* of the method and the acting user.                                      *)
(***************************************************************************)
C1_AuditPairing ==
    (CoreRequest({"POST", "PUT", "DELETE"}) /\ Succeeded) =>
        /\ Len(db.auditLog) = Len(req.pre.auditLog) + 1
        /\ SubSeq(db.auditLog, 1, Len(req.pre.auditLog)) = req.pre.auditLog
        /\ LET a == db.auditLog[Len(db.auditLog)]
           IN  /\ a.entityType = req.kind
               /\ a.entityId = req.id
               /\ a.changeType = ChangeTypeOf(req.method)
               /\ a.changedBy = req.userId
        /\ req.method = "POST" =>
              /\ HasRow(db, TableOf(req.kind), req.id)
              /\ ~HasRow(req.pre, TableOf(req.kind), req.id)
        /\ req.method = "PUT" =>
              /\ HasRow(db, TableOf(req.kind), req.id)
              /\ HasRow(req.pre, TableOf(req.kind), req.id)
        /\ req.method = "DELETE" => ~HasRow(db, TableOf(req.kind), req.id)

\* A product was updated by a signed-in user and the answer is 200.
C1_Witness ==
    /\ CoreRequest({"PUT"}) /\ Succeeded
    /\ req.kind = "product"
    /\ env = "production"

(***************************************************************************)
(* C2: a request whose entity write did not take effect (validation        *)
(* failure, storage failure, no row of the given id) adds no audit row.    *)
(***************************************************************************)
C2_NoAuditWithoutWrite ==
    (CoreRequest({"POST", "PUT", "DELETE"}) /\ CoreRows(db) = CoreRows(req.pre)) =>
        db.auditLog = req.pre.auditLog

(***************************************************************************)
(* C3: the audit log only grows: a step keeps every row it holds, in       *)
(* place, and in every state the audit list filtered on an entity id       *)
(* returns every row recorded for it, also once that entity is deleted.    *)
(***************************************************************************)
C3_AuditAppendOnly ==
    /\ [][/\ Len(db'.auditLog) >= Len(db.auditLog)
          /\ SubSeq(db'.auditLog, 1, Len(db.auditLog)) = db.auditLog]_vars
    /\ [](\A i \in 1..Len(db.auditLog) :
            LET a == db.auditLog[i]
                listed == getAuditLogs(db, a.entityId, "")
            IN  \E j \in 1..Len(listed) : listed[j] = a)

\* A portfolio is gone (get reports not found) and the audit list of its id
\* returns its 'created' and its 'deleted' row.
C3_Witness ==
    \E i \in 1..nextId :
        LET listed == getAuditLogs(db, NewId(i), "")
        IN  /\ getPortfolio(db, NewId(i)) = {}
            /\ \E j, k \in 1..Len(listed) :
                  /\ listed[j].entityType = "portfolio"
                  /\ listed[j].changeType = "deleted"
                  /\ listed[k].changeType = "created"

(***************************************************************************)
(* C4: every Program names an existing Portfolio and every Demand, Project *)
(* and Product names an existing Program.                                  *)
(***************************************************************************)
C4_ParentsExist ==
    /\ \A p \in db.programs :
          "portfolioId" \in DOMAIN p /\ HasRow(db, "portfolios", p.portfolioId)
    /\ \A t \in {"demands", "projects", "products"} : \A r \in db[t] :
          "programId" \in DOMAIN r /\ HasRow(db, "programs", r.programId)

\* The delete of a portfolio that has a program was asked for and answered.
C4_Witness ==
    /\ CoreRequest({"DELETE"})
    /\ req.kind = "portfolio"
    /\ ~req.fault
    /\ \E p \in req.pre.programs : p.portfolioId = req.id

(***************************************************************************)
(* C5 as stated: the delete of a row that other rows reference succeeds,   *)
(* the row is gone and the rows that reference it stay as they were.       *)
(***************************************************************************)
DeleteOfReferenced ==
    /\ Done
    /\ req.kind \in Kinds
    /\ req.method \in {"DELETE", "CALL"}
    /\ req.status # 401
    /\ ~req.fault
    /\ IsReferenced(req.pre, TableOf(req.kind), req.id)

C5_DeleteLeavesOrphans ==
    DeleteOfReferenced =>
        /\ req.status = 204
        /\ ~HasRow(db, TableOf(req.kind), req.id)
        /\ \A t \in CoreTables \ {TableOf(req.kind)} : db[t] = req.pre[t]

(***************************************************************************)
(* C5 as amended: the delete of a row that other rows reference fails (a   *)
(* 500 at a route), and the row and the rows that reference it stay as     *)
(* they were: the delete is blocked, not cascaded.                         *)
(***************************************************************************)
C5_DeleteIsBlocked ==
    DeleteOfReferenced =>
        /\ req.status = 500
        /\ db = req.pre

\* deleteDemand was called for a demand that a project was created from.
C5_Witness ==
    /\ DeleteOfReferenced
    /\ req.kind = "demand"
    /\ \E p \in db.projects : "demandId" \in DOMAIN p /\ p.demandId = req.id

(***************************************************************************)
(* C6: an update of a Project that supplies only the status reference      *)
(* sets that column and updatedAt, and leaves every other column of the    *)
(* project and every other row as it was.                                  *)
(***************************************************************************)
C6_PartialUpdate ==
    (/\ CoreRequest({"PUT"}) /\ Succeeded
     /\ req.kind = "project"
     /\ DOMAIN req.body.f = {"statusId"} /\ req.body.bad = {}) =>
        LET old == RowOf(req.pre, "projects", req.id)
            new == RowOf(db, "projects", req.id)
        IN  /\ new.statusId = req.body.f.statusId
            /\ new.updatedAt > old.updatedAt
            /\ DOMAIN new = DOMAIN old \cup {"statusId"}
            /\ \A c \in DOMAIN old \ {"statusId", "updatedAt"} : new[c] = old[c]
            /\ db.projects \ {new} = req.pre.projects \ {old}
            /\ \A t \in Tables \ {"projects"} : db[t] = req.pre[t]

\* The status of a project was set and the answer is 200.
C6_Witness ==
    /\ CoreRequest({"PUT"}) /\ Succeeded
    /\ req.kind = "project"
    /\ DOMAIN req.body.f = {"statusId"}

(***************************************************************************)
(* C7: a list with a parent id returns exactly the rows whose parent       *)
(* reference equals it, each once; a list without one returns every row.   *)
(***************************************************************************)
ParentColumn(route) == IF route = "programs" THEN "portfolioId" ELSE "programId"

C7_ParentScoping ==
    (out # <<>> /\ out.status = 200) =>
        LET listed == {out.rows[i] : i \in 1..Len(out.rows)}
        IN  /\ Cardinality(listed) = Len(out.rows)
            /\ out.parent # "" =>
                  listed = {r \in db[out.route] : r[ParentColumn(out.route)] = out.parent}
            /\ out.parent = "" => listed = db[out.route]

\* Programs were listed by a portfolio that holds some of them and not all.
C7_Witness ==
    /\ out # <<>> /\ out.status = 200
    /\ out.route = "programs"
    /\ Len(out.rows) >= 2
    /\ \E p \in db.programs : p.portfolioId = out.parent
    /\ \E p \in db.programs : p.portfolioId # out.parent

(***************************************************************************)
(* C8: a create or update whose payload fails the schema is answered 400   *)
(* with the failing fields, and the store is as the request found it.      *)
(***************************************************************************)
C8_InvalidPayloadRejected ==
    (CoreRequest({"POST", "PUT"}) /\ InvalidPayload) =>
        /\ req.status = 400
        /\ req.errors # {}
        /\ req.errors \subseteq SchemaColumns(TableOf(req.kind))
        /\ db = req.pre

\* An update of an existing portfolio with a budget of the wrong type.
C8_Witness ==
    /\ CoreRequest({"PUT"}) /\ InvalidPayload
    /\ req.kind = "portfolio"
    /\ HasRow(db, "portfolios", req.id)
    /\ db.auditLog # <<>>

(***************************************************************************)
(* C9: a get, update or delete of an id that names no row is answered 404, *)
(* and leaves the entity tables as they were.                              *)
(***************************************************************************)
C9_MissingIdIsNotFound ==
    (/\ CoreRequest({"GET", "PUT", "DELETE"})
     /\ ~req.fault
     /\ ~InvalidPayload
     /\ ~HasRow(req.pre, TableOf(req.kind), req.id)) =>
        /\ req.status = 404
        /\ CoreRows(db) = CoreRows(req.pre)

WriteRequest ==
    /\ req.pc \in {"audit", "done"}
    /\ req.kind \in Kinds \cup {"user"}
    /\ req.method \in {"POST", "PUT", "DELETE"}

\* The row the request created, if it created one.
Created == {r \in db[TableOf(req.kind)] : r.id = req.id} \ req.pre[TableOf(req.kind)]

C12_OwnerFromActor ==
    (WriteRequest /\ req.kind \in Kinds /\ req.method = "POST") =>
        /\ \A r \in Created : r.ownerId = req.userId
        /\ (Done /\ Succeeded) => Created # {}

\* A create whose body names another user as owner was answered 201.
C12_Witness ==
    /\ WriteRequest /\ Done /\ Succeeded
    /\ req.method = "POST"
    /\ "ownerId" \in DOMAIN req.body.f
    /\ req.body.f.ownerId # req.userId
    /\ HasRow(db, "users", req.body.f.ownerId)

(***************************************************************************)
(* C13: an upsert leaves exactly one user row of its id, holding the       *)
(* fields of the call (and, of the columns the call leaves out, what the   *)
(* row held); an upsert of an existing id adds no row, a new id adds one;  *)
(* every other row stays as it was and no id changes.                      *)
(***************************************************************************)
C13_UpsertOneRow ==
    (Done /\ req.method = "CALL" /\ req.kind = "user") =>
        LET data == req.body.f
            mine == {u \in db.users : u.id = data.id}
            was == {u \in req.pre.users : u.id = data.id}
        IN  IF req.status # 200 THEN db = req.pre ELSE
            /\ Cardinality(mine) = 1
            /\ \A u \in mine :
                  /\ \A c \in DOMAIN data :
                        IF data[c] = Null THEN c \notin DOMAIN u ELSE u[c] = data[c]
                  /\ \A old \in was : \A c \in DOMAIN old \ DOMAIN data :
                        c \in DOMAIN u /\ u[c] = old[c]
            /\ was # {} => Cardinality(db.users) = Cardinality(req.pre.users)
            /\ was = {} => Cardinality(db.users) = Cardinality(req.pre.users) + 1
            /\ db.users \ mine = req.pre.users \ was
            /\ \A t \in DOMAIN db : t # "users" => db[t] = req.pre[t]

\* The upsert was called for an id that had a row with another first name
\* and an email, with a first name and no email.
C13_Witness ==
    /\ Done /\ req.method = "CALL" /\ req.kind = "user" /\ req.status = 200
    /\ \E old \in req.pre.users :
          /\ old.id = req.body.f.id
          /\ "firstName" \in DOMAIN old /\ "email" \in DOMAIN old
          /\ "firstName" \in DOMAIN req.body.f
          /\ req.body.f.firstName \notin {Null, old.firstName}
          /\ "email" \notin DOMAIN req.body.f
    /\ Cardinality(db.users) = 2

\* Nothing but the payload stands between the request and its write: the
\* store answers, the acting user has a row, an update addresses a row.
PayloadDecides ==
    /\ ~req.fault
    /\ HasRow(req.pre, "users", req.userId)
    /\ req.method = "PUT" => HasRow(req.pre, TableOf(req.kind), req.id)

(***************************************************************************)
(* C14: a create or update of a Project with a progress outside 0..100 is  *)
(* answered as a validation error and stores nothing, so every stored      *)
(* Project has a progress within 0..100.                                   *)
(***************************************************************************)
C14_ProgressBounded ==
    /\ (/\ CoreRequest({"POST", "PUT"}) /\ req.kind = "project"
        /\ PayloadDecides
        /\ "progress" \in DOMAIN req.body.f
        /\ req.body.f.progress \notin 0..100) =>
            /\ req.status = 400
            /\ db = req.pre
    /\ \A p \in db.projects : "progress" \in DOMAIN p => p.progress \in 0..100

(***************************************************************************)
(* C15: a create of a Demand with a priority outside {high, medium, low}   *)
(* is answered as a validation error; no Demand row and no audit row is    *)
(* written.                                                                *)
(***************************************************************************)
C15_PriorityEnum ==
    (/\ CoreRequest({"POST"}) /\ req.kind = "demand"
     /\ PayloadDecides
     /\ "priority" \in DOMAIN req.body.f
     /\ req.body.f.priority \notin {"high", "medium", "low"}) =>
        /\ req.status = 400
        /\ db.demands = req.pre.demands
        /\ db.auditLog = req.pre.auditLog

(***************************************************************************)
(* C16: the Phase and Status rows a Demand references have type demand,    *)
(* those a Project references have type project.                           *)
(***************************************************************************)
C16_LookupTypeMatches ==
    \A kind \in {"demand", "project"} : \A e \in db[TableOf(kind)] :
        /\ "phaseId" \in DOMAIN e =>
              \A ph \in db.phases : ph.id = e.phaseId => ph.type = kind
        /\ "statusId" \in DOMAIN e =>
              \A st \in db.statuses : st.id = e.statusId => st.type = kind

(***************************************************************************)
(* C17: a list of phases, with or without a type, returns the active       *)
(* phases (of the type) and no inactive one; get(id) returns the phase     *)
(* whether it is active or not, so the phase of every Demand resolves by   *)
(* id; setting isActive changes that column of that phase and nothing      *)
(* else, and the Demand keeps its phaseId.                                 *)
(***************************************************************************)
C17_SoftDisable ==
    /\ (Done /\ req.kind = "phase" /\ req.method = "GET" /\ req.status = 200) =>
          {out[i] : i \in 1..Len(out)} =
              {p \in db.phases : /\ p.isActive
                                 /\ req.body.f.type \in {"", p.type}}
    /\ (Done /\ req.kind = "phase" /\ req.method = "CALL_GET") =>
          \A p \in db.phases : p.id = req.id => (req.status = 200 /\ out = <<p>>)
    /\ (Done /\ req.kind = "phase" /\ req.method = "CALL_UPDATE") =>
          /\ \A t \in DOMAIN db : t # "phases" => db[t] = req.pre[t]
          /\ \A p \in db.phases :
                \/ p \in req.pre.phases
                \/ /\ p.id = req.id
                   /\ p.isActive = req.body.f.isActive
                   /\ \E q \in req.pre.phases : p = [q EXCEPT !.isActive = p.isActive]
          /\ Cardinality(db.phases) = Cardinality(req.pre.phases)
    /\ \A d \in db.demands : "phaseId" \in DOMAIN d => getPhase(db, d.phaseId) # {}

\* The phases of type demand are listed while the phase that the Demand
\* references is inactive.
C17_Witness ==
    /\ Done /\ req.kind = "phase" /\ req.method = "GET" /\ req.status = 200
    /\ req.body.f.type = "demand"
    /\ Len(out) >= 2
    /\ \E d \in db.demands : \E p \in db.phases :
          p.id = d.phaseId /\ ~p.isActive /\ p.type = "demand"

(***************************************************************************)
(* Vocabulary of the dashboard properties                                  *)
(***************************************************************************)

\* The projects whose status row carries the name.
ProjectsNamed(d, name) ==
    {p \in d.projects :
        "statusId" \in DOMAIN p /\
            \E st \in d.statuses : st.id = p.statusId /\ st.name = name}

\* The request is a PUT that moved a project from a status not named
\* "At Risk" (or from no status) to a status named "At Risk".
MovedToAtRisk ==
    /\ req.pc \in {"audit", "done"}
    /\ req.method = "PUT" /\ req.kind = "project"
    /\ "statusId" \in DOMAIN req.body.f
    /\ \E st \in req.pre.statuses : st.id = req.body.f.statusId /\ st.name = "At Risk"
    /\ \E p \in req.pre.projects : p.id = req.id /\ p \notin ProjectsNamed(req.pre, "At Risk")
    /\ \E p \in db.projects : /\ p.id = req.id
                               /\ "statusId" \in DOMAIN p
                               /\ p.statusId = req.body.f.statusId

(***************************************************************************)
(* C18: GET /api/dashboard/metrics answers with activeProjects = the       *)
(* number of projects whose status row is named "Active" and               *)
(* atRiskProjects = the number whose status row is named "At Risk"; an     *)
(* update that moves one project from a status not named "At Risk" to one  *)
(* named "At Risk" leaves a store with exactly one more such project, so   *)
(* the metrics read after it report atRiskProjects 1 higher.               *)
(***************************************************************************)
C18_MetricsCountByStatusName ==
    /\ (Done /\ req.kind = "metrics" /\ req.status = 200) =>
          /\ Len(out) = 1
          /\ out[1].activeProjects = Cardinality(ProjectsNamed(db, "Active"))
          /\ out[1].atRiskProjects = Cardinality(ProjectsNamed(db, "At Risk"))
          /\ out[1] = getDashboardMetrics(db)
    /\ MovedToAtRisk =>
          getDashboardMetrics(db).atRiskProjects =
              getDashboardMetrics(req.pre).atRiskProjects + 1

\* The metrics are read after an update has moved a project to "At Risk":
\* the audit log holds that update, and both counts are positive.
C18_Witness ==
    /\ Done /\ req.kind = "metrics" /\ req.status = 200
    /\ out[1].atRiskProjects >= 1
    /\ out[1].activeProjects >= 1
    /\ \E a \in AuditRows(db) :
          /\ a.entityType = "project" /\ a.changeType = "updated"
          /\ "statusId" \in DOMAIN a.details
          /\ a.details.statusId = StatusId(8)
          /\ \E p \in ProjectsNamed(db, "At Risk") : p.id = a.entityId

(***************************************************************************)
(* Vocabulary of the lookup properties                                     *)
(***************************************************************************)

\* A create of a phase or a status that passed authentication and met no
\* database fault: the payload decides the answer.
LookupCreate(methods) ==
    /\ Done
    /\ req.kind \in {"phase", "status"}
    /\ req.method \in methods
    /\ devAuth(req.actor)
    /\ ~req.fault

\* The domains a phase or a status belongs to.
LookupTypes == {"demand", "project"}

(***************************************************************************)
(* C19 as stated: a create of a phase or a status whose type is not one of *)
(* demand and project is answered 400 and stores no row, and every stored  *)
(* phase and status has type demand or project.                            *)
(***************************************************************************)
C19_LookupTypeEnum ==
    /\ (/\ LookupCreate({"POST"})
        /\ "type" \in DOMAIN req.body.f
        /\ req.body.f.type \notin LookupTypes) =>
          (req.status = 400 /\ db = req.pre)
    /\ \A r \in db.phases \cup db.statuses : r.type \in LookupTypes

(***************************************************************************)
(* C20 as stated: a create of a phase whose caller supplies no order (the  *)
(* request carries none, or the form fills it in) is answered 201, and     *)
(* the created row's order is greater than the order of every phase of     *)
(* the same type that existed before.                                      *)
(***************************************************************************)
C20_PhaseOrderAssigned ==
    (/\ LookupCreate({"POST", "FORM"})
     /\ req.kind = "phase"
     /\ req.body.bad = {}
     /\ {"name", "type"} \subseteq DOMAIN req.body.f
     /\ req.method = "POST" => "order" \notin DOMAIN req.body.f) =>
        /\ req.status = 201
        /\ \E p \in db.phases \ req.pre.phases :
              /\ p.id = req.id
              /\ \A q \in req.pre.phases : q.type = p.type => p.order > q.order

(***************************************************************************)
(* C21: GET /api/audit answers with rows in descending order of timestamp; *)
(* with only entityId they are exactly the rows of that entity, with only  *)
(* entityType exactly the rows of that type, with both exactly the rows    *)
(* that match both, and with neither all rows of the audit log.            *)
(***************************************************************************)
C21_AuditListFilters ==
    (Done /\ req.kind = "audit" /\ req.status = 200) =>
        LET id == req.body.f.entityId
            type == req.body.f.entityType
            listed == {out[i] : i \in 1..Len(out)}
            ofId == {a \in AuditRows(db) : a.entityId = id}
            ofType == {a \in AuditRows(db) : a.entityType = type}
        IN  /\ \A i \in 1..Len(out) : \A j \in i..Len(out) :
                  out[i].timestamp >= out[j].timestamp
            /\ Len(out) = Cardinality(listed)
            /\ listed = CASE id # "" /\ type = "" -> ofId
                           [] id = "" /\ type # "" -> ofType
                           [] id # "" /\ type # "" -> ofId \cap ofType
                           [] OTHER -> AuditRows(db)

\* Both filters are given, the log holds rows of the entity, rows of the
\* type and rows of neither, and the answer has two rows.
C21_Witness ==
    /\ Done /\ req.kind = "audit" /\ req.status = 200
    /\ req.body.f.entityId = NewId(1) /\ req.body.f.entityType = "project"
    /\ Len(out) = 2
    /\ Len(db.auditLog) >= 3

(***************************************************************************)
(* Vocabulary of the search properties                                     *)
(***************************************************************************)

\* The user has query in its first name, last name or email, letter case
\* disregarded.
UserContains(u, query) ==
    \E c \in {"firstName", "lastName", "email"} \cap DOMAIN u : ContainsNoCase(u[c], query)

(***************************************************************************)
(* C22 as stated: a search with a non-empty query answers with at most 20  *)
(* users, each of which has the query in its first name, last name or      *)
(* email without regard to letter case, and while fewer than 20 are        *)
(* returned no user that has it (in whatever letter case) is left out; a   *)
(* search with an empty query answers with nothing and calls no storage.   *)
(***************************************************************************)
C22_SearchIgnoresCase ==
    (Done /\ req.kind = "search" /\ devAuth(req.actor)) =>
        IF req.body.f.q = <<>>
        THEN req.status = 200 /\ out = <<{}>> /\ ~req.fault
        ELSE req.status = 200 =>
                /\ Cardinality(out[1]) <= 20
                /\ out[1] \subseteq db.users
                /\ \A u \in out[1] : UserContains(u, req.body.f.q)
                /\ Cardinality(out[1]) < 20 =>
                      \A u \in db.users : UserContains(u, req.body.f.q) => u \in out[1]

(***************************************************************************)
(* C23 as stated: a positive whole amount d that is entered and saved is   *)
(* stored as d * 100, and each place that shows or re-edits the stored     *)
(* budget (the table cell, the form when it is reopened, the project       *)
(* status page) shows d again.                                             *)
(***************************************************************************)
C23_BudgetRoundTrip ==
    (/\ Done /\ req.method = "FORM" /\ req.kind \in {"portfolio", "project"}
     /\ req.body.f.budget # <<>>
     /\ req.body.f.budget[1] > 0) =>
        LET d == req.body.f.budget[1]
            stored == budgetOf(RowOf(db, TableOf(req.kind), req.id))
        IN  /\ req.status = 200
            /\ stored = <<d * 100>>
            /\ formatBudget(stored) = [usd |-> d]
            /\ formResetBudget(stored) = [whole |-> d, hundredths |-> 0]
            /\ req.kind = "project" => projectStatusBudget(stored) = [usd |-> d]

(***************************************************************************)
(* C25 as stated: however the runs of the seeding routine follow or        *)
(* overlap each other, no default (name, type) pair is stored twice, and   *)
(* when all runs have ended the phases and statuses are those of one run:  *)
(* each default pair exactly once.                                         *)
(***************************************************************************)
C25_SeedIdempotent ==
    /\ \A t \in {"phases", "statuses"} : \A r1 \in db[t], r2 \in db[t] :
          (r1.name = r2.name /\ r1.type = r2.type) => r1 = r2
    /\ (\A p \in DOMAIN req : req[p].pc = "done") =>
          /\ Cardinality(db.phases) = Len(DefaultPhases)
          /\ Cardinality(db.statuses) = Len(DefaultStatuses)

(***************************************************************************)
(* C24 as stated: in every state, also while a handler is between its two  *)
(* statements and after its audit insert has failed, a request that has    *)
(* changed the core entities has added exactly one audit row.              *)
(***************************************************************************)
C24_AtomicAudit ==
    (/\ req.pc \in {"audit", "done"}
     /\ req.kind \in Kinds
     /\ req.method \in {"POST", "PUT", "DELETE"}
     /\ CoreRows(db) # CoreRows(req.pre)) =>
        Len(db.auditLog) = Len(req.pre.auditLog) + 1

(***************************************************************************)
(* Vocabulary of the failure properties                                    *)
(***************************************************************************)

\* The handler of the answered request called storage and storage threw.
StorageFailed == Done /\ req.fault /\ req.errors # {}

\* The error is swallowed by a try of its own inside the handler.
Swallowed ==
    \/ req.kind = "/api/auth/user" /\ env = "development"
    \/ req.kind = "/api/seed-data"

C27_NewestAuditIsLastWrite ==
    (\A p \in DOMAIN req : req[p].pc \in {"idle", "done"}) =>
        \A e \in db.projects :
            \A a \in AuditRows(db) :
                (/\ a.entityType = "project" /\ a.entityId = e.id
                 /\ \A b \in AuditRows(db) :
                       (b.entityType = "project" /\ b.entityId = e.id) =>
                           b.timestamp <= a.timestamp) =>
                    \A c \in DOMAIN a.details : e[c] = a.details[c]

(***************************************************************************)
(* C28 as stated: a role-update handler writes a user's role only in a     *)
(* state in which the acting user's stored role is admin.                  *)
(***************************************************************************)
C28_RoleWriteOnlyByAdmin ==
    [][\A p \in DOMAIN req :
          (req[p].pc = "update" /\ req[p].kind = "user" /\ req'[p].pc = "audit") =>
              isAdmin(getUser(db, req[p].userId))]_vars

(***************************************************************************)
(* C29 as stated: an update leaves the ownerId of the row it addresses as  *)
(* it was, also when the body of the request carries an ownerId.           *)
(***************************************************************************)
C29_OwnerFixedAtCreation ==
    (req.pc \in {"audit", "done"} /\ req.method = "PUT" /\ req.kind \in Kinds) =>
        \A old \in req.pre[TableOf(req.kind)], new \in db[TableOf(req.kind)] :
            old.id = new.id => new.ownerId = old.ownerId

(***************************************************************************)
(* C30 as stated: whatever the user types, selects and clicks, currentPage *)
(* lies in 1..max(1, totalPages) of the filtered data, and filtered data   *)
(* that is not empty is never shown as an empty page.                      *)
(***************************************************************************)
C30_PageWithinRange ==
    LET filtered == filteredData(db.data, req.searchQuery, req.filter)
        pages == totalPages(Len(filtered), db.pageSize)
    IN  /\ req.currentPage >= 1
        /\ req.currentPage <= IF pages > 1 THEN pages ELSE 1
        /\ filtered # <<>> => paginatedData(filtered, req.currentPage, db.pageSize) # <<>>

====
